---- MODULE Spec2Model ----
(***************************************************************************)
(* The hand-written tensor routines of the tutorial notebooks:             *)
(*   corr2d, corr2d_multi_in, corr2d_multi_in_out, corr2d_multi_in_out_1x1 *)
(*   (channels and convolution notebooks), pool2d (pooling notebook) and   *)
(*   the output-shape arithmetic of the padding-and-stride notebook.       *)
(*                                                                         *)
(* A tensor is a record [dtype, shape, data]: data is the row-major list   *)
(* of its elements, as torch stores a contiguous tensor.  Indices are      *)
(* 0-based as in the code.  An element of a "long" tensor is an integer;   *)
(* an element of a "float" tensor is an exact rational <<num, den>> in     *)
(* lowest terms with den > 0 (rounding of the last bit is not modelled).   *)
(***************************************************************************)
EXTENDS Integers, Sequences, FiniteSets, TLC

VARIABLES
    pc,         \* where the running cell or call stands
    fn,         \* the function called (or the notebook cell run)
    X, K,       \* its tensor arguments
    pool_size,  \* pool2d's window
    mode,       \* pool2d's mode
    conv2d,     \* the hyper-parameters of the nn.Conv2d layer of comp_conv2d
    stride,     \* a stride passed to corr2d or pool2d as one more argument
    Y, i, j,    \* the locals of corr2d and pool2d
    ret,        \* the value returned
    exc,        \* the exception raised
    Y1, Y2,     \* the names bound by the 1x1 validation cell
    execution_count,    \* the number of calls the notebook session has made
    first,      \* the first call of the session and its outcome
    Yp,         \* the output grid of the loop body run once per cell, in any order
    pending,    \* the cells for which that body has not run yet
    names,      \* the names bound by the cells of the read-write notebook
    files,      \* the files written by torch.save: file name -> content
    saved,      \* the value last passed to torch.save under each file name
    blocks,     \* the blocks passed to MySequential(*args), in order
    _modules,   \* self._modules of the MySequential: an OrderedDict
    idx,        \* the position of the loop over args, or over _modules.values()
    frame,      \* forward's own X, and the keys of the blocks it has executed
    writes,     \* the cells Y[i, j] = ... has stored into, in the order of the stores
    self,       \* the layer whose forward is called: its parameters
    node_feats, \* the node features passed to GCNLayer.forward
    adj_matrix, \* the adjacency matrices passed to GCNLayer.forward
    locals      \* the names forward has bound

\* the arguments of a call
args == <<fn, X, K, pool_size, mode, conv2d, stride>>

\* the names of the validation cell
cell == <<Y1, Y2>>

\* the names of the notebook session around the calls
\* the read-write notebook: its names and the files
rw == <<names, files, saved>>

\* the MySequential under construction or in its forward
ms == <<blocks, _modules, idx, frame>>

\* what the later sections add to the state
ext == <<writes, self, node_feats, adj_matrix, locals>>

nb == <<ext, execution_count, first, Yp, pending, rw, ms>>

vars == <<pc, args, Y, i, j, ret, exc, cell, nb>>

(***************************************************************************)
(* Bounds of the model.                                                    *)
(***************************************************************************)
\* a grid X has at most MaxCells elements
MaxCells == 4
\* a kernel K (or a pooling window) has at most MaxKCells elements
MaxKCells == 4
\* the input of a convolutional layer has at most MaxN rows and columns
MaxN == 8
\* its kernel has at most MaxKh rows and MaxKw columns
MaxKh == 3
MaxKw == 5
\* at most MaxPad rows or columns are padded on either side
MaxPad == 1
\* its stride is at most MaxSh rows and MaxSw columns
MaxSh == 3
MaxSw == 4

\* element values of the enumerated grids and kernels
Vals == {-1, 0, 1}
Weights == {-1, 1}
Dtypes == {"float", "long"}

(***************************************************************************)
(* Scalars.                                                                *)
(***************************************************************************)
Abs(n) == IF n < 0 THEN -n ELSE n

Min(a, b) == IF a < b THEN a ELSE b

Max0(a) == IF a < 0 THEN 0 ELSE a

RECURSIVE GCD(_, _)
GCD(a, b) == IF b = 0 THEN a ELSE GCD(b, a % b)

\* the float nan, 0/0
NaN == <<0, 0>>

\* the float n/d in lowest terms; 1/0 and -1/0 are the infinities, so that
\* the sums and products below are those of the floats: inf - inf, 0 * inf
\* and every operation on nan are nan
Rat(n, d) ==
    IF n = 0 /\ d = 0 THEN NaN
    ELSE LET g == GCD(Abs(n), Abs(d))
             s == IF d < 0 THEN -1 ELSE 1
         IN  <<(s * n) \div g, (s * d) \div g>>

\* a + b; the operands are taken by value (x, y); inf + inf is inf
RAdd(a, b) ==
    CHOOSE q \in {IF x[2] = 0 /\ y[2] = 0 THEN (IF x = y THEN x ELSE NaN)
                  ELSE Rat(x[1] * y[2] + y[1] * x[2], x[2] * y[2]) : x \in {a}, y \in {b}} : TRUE

\* a * b
RMul(a, b) ==
    CHOOSE q \in {Rat(x[1] * y[1], x[2] * y[2]) : x \in {a}, y \in {b}} : TRUE

RLess(a, b) == a[1] * b[2] < b[1] * a[2]

\* the value of an element of a tensor of dtype dt, as a float
ToFloat(dt, v) == IF dt = "float" THEN v ELSE <<v, 1>>

\* type promotion of a binary operation
Promote(dtA, dtB) == IF dtA = "long" /\ dtB = "long" THEN "long" ELSE "float"

(***************************************************************************)
(* Tensors.                                                                *)
(***************************************************************************)
Tensor(dt, sh, d) == [dtype |-> dt, shape |-> sh, data |-> d]

\* no tensor: the value of a name not yet bound
NoTensor == [dtype |-> "none", shape |-> <<>>, data |-> <<>>]

RECURSIVE Numel(_)
Numel(sh) == IF sh = <<>> THEN 1 ELSE sh[1] * Numel(Tail(sh))

\* torch.zeros(shape): a float tensor of zeros
Zeros(sh) == Tensor("float", sh, [n \in 1..Numel(sh) |-> <<0, 1>>])

\* T[r, c] of a 2-D tensor
At(T, r, c) == T.data[r * T.shape[2] + c + 1]

\* T[r0:r1, c0:c1] of a 2-D tensor; Python clamps a slice to the axis
Slice(T, r0, r1, c0, c1) ==
    LET ra == Min(r0, T.shape[1])
        rb == Min(r1, T.shape[1])
        ca == Min(c0, T.shape[2])
        cb == Min(c1, T.shape[2])
        nr == Max0(rb - ra)
        nc == Max0(cb - ca)
    IN  Tensor(T.dtype, <<nr, nc>>,
               [n \in 1..(nr * nc) |->
                   At(T, ra + ((n - 1) \div nc), ca + ((n - 1) % nc))])

\* A * B, elementwise, for tensors of the same shape
Mul(A, B) ==
    LET dt == Promote(A.dtype, B.dtype)
    IN  Tensor(dt, A.shape,
               [n \in 1..Len(A.data) |->
                   IF dt = "long" THEN A.data[n] * B.data[n]
                   ELSE RMul(ToFloat(A.dtype, A.data[n]), ToFloat(B.dtype, B.data[n]))])

\* T.sum(): the sum of all elements, a float (a 0-dim tensor of T's dtype,
\* read here at the point where it is stored into a float tensor)
RECURSIVE SumFrom(_, _, _)
SumFrom(dt, d, n) ==
    IF n > Len(d) THEN <<0, 1>>
    ELSE CHOOSE s \in {RAdd(here, rest) : here \in {ToFloat(dt, d[n])},
                                          rest \in {SumFrom(dt, d, n + 1)}} : TRUE

TSum(T) == SumFrom(T.dtype, T.data, 1)

\* T.max() of a non-empty tensor, as a float
RECURSIVE MaxFrom(_, _, _)
MaxFrom(dt, d, n) ==
    IF n = Len(d) THEN ToFloat(dt, d[n])
    ELSE LET rest == MaxFrom(dt, d, n + 1)
             here == ToFloat(dt, d[n])
         IN  IF RLess(here, rest) THEN rest ELSE here

\* a maximum accumulated from 0 instead of from an element of the window
TMaxFromZero(T) ==
    LET m == MaxFrom(T.dtype, T.data, 1) IN IF RLess(m, <<0, 1>>) THEN <<0, 1>> ELSE m

TMax(T) == MaxFrom(T.dtype, T.data, 1)

\* T.max() needs an element: on an empty tensor it raises
MaxDefined(T) == Len(T.data) > 0

\* T.mean() of a float tensor: the sum divided by the number of elements,
\* nan on an empty tensor
TMean(T) == IF Len(T.data) = 0 THEN NaN ELSE RMul(TSum(T), Rat(1, Len(T.data)))

\* T.mean() is defined for floating point tensors only
MeanDefined(T) == T.dtype = "float"

\* Y[r, c] = v
SetAt(T, r, c, v) == [T EXCEPT !.data[r * T.shape[2] + c + 1] = v]

(***************************************************************************)
(* corr2d                                                                  *)
(***************************************************************************)
\* an output shape without the + 1
OutShapeShort(Xs, h, w) == <<Xs[1] - h, Xs[2] - w>>

\* Y = torch.zeros((X.shape[0] - h + 1, X.shape[1] - w + 1))
OutShape(Xs, h, w) == <<Xs[1] - h + 1, Xs[2] - w + 1>>

\* an allocation that accepts any shape
ZerosLenient(sh) == TRUE

\* an allocation that rejects a dimension of 0 as well
ZerosPositive(sh) == \A n \in 1..Len(sh) : sh[n] > 0

\* torch.zeros rejects a negative dimension
ZerosDefined(sh) == \A n \in 1..Len(sh) : sh[n] >= 0

\* the kernel rotated by 180 degrees
Flip(Kt) == [Kt EXCEPT !.data = [n \in 1..Len(Kt.data) |-> Kt.data[Len(Kt.data) + 1 - n]]]

\* a convolution in the signal-processing sense: the kernel is reversed
CorrCellFlipped(Xt, Kt, r, c) ==
    TSum(Mul(Slice(Xt, r, r + Kt.shape[1], c, c + Kt.shape[2]), Flip(Kt)))

\* (X[i:i + h, j:j + w] * K).sum()
CorrCell(Xt, Kt, r, c) ==
    TSum(Mul(Slice(Xt, r, r + Kt.shape[1], c, c + Kt.shape[2]), Kt))

\* the elementwise product needs operands of one shape
CorrCellDefined(Xt, Kt, r, c) ==
    Slice(Xt, r, r + Kt.shape[1], c, c + Kt.shape[2]).shape = Kt.shape

\* a window anchored at twice the cell's indices
WindowStrideTwo(Xt, ps, r, c) == Slice(Xt, 2 * r, 2 * r + ps[1], 2 * c, 2 * c + ps[2])

\* X[i: i + p_h, j: j + p_w]
Window(Xt, ps, r, c) == Slice(Xt, r, r + ps[1], c, c + ps[2])

(***************************************************************************)
(* The multi-channel functions.                                            *)
(***************************************************************************)
\* the value of a call that raised
Raised == [dtype |-> "raised", shape |-> <<>>, data |-> <<>>]

\* corr2d(X, K) run to completion: the returned Y, or Raised
Corr2d(Xt, Kt) ==
    LET sh == OutShape(Xt.shape, Kt.shape[1], Kt.shape[2])
    IN  IF ~ZerosDefined(sh) THEN Raised
        ELSE IF \E n \in 1..Numel(sh) :
                    ~CorrCellDefined(Xt, Kt, (n - 1) \div sh[2], (n - 1) % sh[2])
             THEN Raised
             ELSE Tensor("float", sh,
                         [n \in 1..Numel(sh) |->
                             CorrCell(Xt, Kt, (n - 1) \div sh[2], (n - 1) % sh[2])])

\* T[n]: the n-th item along the first axis, as iteration over T yields it
Item(T, n) ==
    LET sz == Numel(Tail(T.shape))
    IN  Tensor(T.dtype, Tail(T.shape), SubSeq(T.data, n * sz + 1, (n + 1) * sz))

\* A + B, elementwise, for float tensors of the same shape
TAdd(A, B) ==
    Tensor("float", A.shape, [n \in 1..Len(A.data) |-> RAdd(A.data[n], B.data[n])])

\* sum(ts): 0 + ts[1] + ts[2] + ... of a non-empty list of float tensors
RECURSIVE SumList(_, _)
SumList(ts, n) ==
    IF n = 1 THEN TAdd(Zeros(ts[1].shape), ts[1])
    ELSE TAdd(SumList(ts, n - 1), ts[n])

\* a sum that stops before the last channel
PySumShort(ts) == SumList(ts, IF Len(ts) > 1 THEN Len(ts) - 1 ELSE 1)

PySum(ts) == SumList(ts, Len(ts))

\* sum(corr2d(x, k) for x, k in zip(X, K)); zip stops at the shorter argument
Corr2dMultiIn(Xt, Kt) ==
    LET n == Min(Xt.shape[1], Kt.shape[1])
        parts == [c \in 1..n |-> Corr2d(Item(Xt, c - 1), Item(Kt, c - 1))]
    IN  IF \E c \in 1..n : parts[c] = Raised THEN Raised ELSE PySum(parts)

\* torch.stack(ts, 0) of a non-empty list of tensors of one shape
RECURSIVE Concat(_, _)
Concat(ts, n) == IF n = 0 THEN <<>> ELSE Concat(ts, n - 1) \o ts[n].data

Stack(ts) == Tensor(ts[1].dtype, <<Len(ts)>> \o ts[1].shape, Concat(ts, Len(ts)))

\* every output channel computed from the first weight stack
Corr2dMultiInOutFirst(Xt, Kt) ==
    LET outs == [o \in 1..Kt.shape[1] |-> Corr2dMultiIn(Xt, Item(Kt, 0))]
    IN  IF \E o \in 1..Len(outs) : outs[o] = Raised THEN Raised ELSE Stack(outs)

\* torch.stack([corr2d_multi_in(X, k) for k in K], 0)
Corr2dMultiInOut(Xt, Kt) ==
    LET outs == [o \in 1..Kt.shape[1] |-> Corr2dMultiIn(Xt, Item(Kt, o - 1))]
    IN  IF \E o \in 1..Len(outs) : outs[o] = Raised THEN Raised ELSE Stack(outs)

\* T.reshape(sh) keeps the row-major data; the sizes must agree
Reshape(T, sh) == IF Numel(sh) = Numel(T.shape) THEN [T EXCEPT !.shape = sh] ELSE Raised

\* the dot product of row r of A and column c of B, terms k..n-1
RECURSIVE Dot(_, _, _, _, _)
Dot(A, B, r, c, k) ==
    IF k = A.shape[2] THEN <<0, 1>>
    ELSE RAdd(RMul(At(A, r, k), At(B, k, c)), Dot(A, B, r, c, k + 1))

\* a product that keeps the last term of each dot product only
MatMulLastTerm(A, B) ==
    Tensor("float", <<A.shape[1], B.shape[2]>>,
           [n \in 1..(A.shape[1] * B.shape[2]) |->
               Dot(A, B, (n - 1) \div B.shape[2], (n - 1) % B.shape[2], A.shape[2] - 1)])

\* torch.matmul(A, B) of float matrices with A.shape[1] = B.shape[0]
MatMul(A, B) ==
    Tensor("float", <<A.shape[1], B.shape[2]>>,
           [n \in 1..(A.shape[1] * B.shape[2]) |->
               Dot(A, B, (n - 1) \div B.shape[2], (n - 1) % B.shape[2], 0)])

\* corr2d_multi_in_out_1x1(X, K)
Corr2dMultiInOut1x1(Xt, Kt) ==
    LET c_i == Xt.shape[1]
        h == Xt.shape[2]
        w == Xt.shape[3]
        c_o == Kt.shape[1]
        X2 == Reshape(Xt, <<c_i, h * w>>)
        K2 == Reshape(Kt, <<c_o, c_i>>)
    IN  IF K2 = Raised THEN Raised ELSE Reshape(MatMul(K2, X2), <<c_o, h, w>>)

\* float(torch.abs(A - B).sum()) for float tensors of the same shape
RECURSIVE AbsDiffFrom(_, _, _)
AbsDiffFrom(A, B, n) ==
    IF n > Len(A.data) THEN <<0, 1>>
    ELSE LET d == RAdd(A.data[n], RMul(<<-1, 1>>, B.data[n]))
         IN  RAdd(<<Abs(d[1]), d[2]>>, AbsDiffFrom(A, B, n + 1))

AbsDiffSum(A, B) == AbsDiffFrom(A, B, 1)

\* the tolerance 1e-6 of the validation cell
Tolerance == <<1, 1000000>>

(***************************************************************************)
(* Inputs.                                                                 *)
(***************************************************************************)
\* the 2-D shapes of at most m elements
Shapes(m) == {sh \in (1..m) \X (1..m) : sh[1] * sh[2] <= m}

\* the elements of a tensor of dtype dt with values in S
Elems(dt, S) == IF dt = "float" THEN {<<v, 1>> : v \in S} ELSE S

\* all tensors of dtype dt, of a shape in shs, with values in S
Tensors(dt, shs, S) ==
    UNION {{Tensor(dt, sh, d) : d \in [1..Numel(sh) -> Elems(dt, S)]} : sh \in shs}

\* torch.tensor(rows) of literals with integer values, float (0.0, 1.0, ...)
\* or long (0, 1, ...)
Literal(dt, sh, ints) ==
    Tensor(dt, sh, [n \in 1..Len(ints) |-> IF dt = "float" THEN <<ints[n], 1>> ELSE ints[n]])

\* X = torch.tensor([[0.0, 1.0, 2.0], [3.0, 4.0, 5.0], [6.0, 7.0, 8.0]])
ExampleX(dt) == Literal(dt, <<3, 3>>, <<0, 1, 2, 3, 4, 5, 6, 7, 8>>)

\* K = torch.tensor([[0.0, 1.0], [2.0, 3.0]])
ExampleK == Literal("float", <<2, 2>>, <<0, 1, 2, 3>>)

Grids(dt) == Tensors(dt, Shapes(MaxCells), Vals) \cup {ExampleX(dt)}

\* the window shapes with no element: (0, w) and (h, 0)
ZeroShapes(m) == {sh \in (0..m) \X (0..m) : sh[1] * sh[2] = 0}

Kernels ==
    Tensors("float", Shapes(MaxKCells) \cup ZeroShapes(MaxKCells), Weights) \cup {ExampleK}

\* the pooling windows (p_h, p_w), a pair of sizes with no data of its own
PoolSizes == (0..MaxKCells) \X (0..MaxKCells)

Modes == {"max", "avg", "sum"}

NoSize == <<>>

NoMode == "none"

NoExc == "none"

\* no stride is passed
NoStride == <<>>

NoConv == [kernel_size |-> <<>>, padding |-> <<>>, stride |-> <<>>]

(***************************************************************************)
(* The state before a call: the arguments are bound, nothing has run.      *)
(***************************************************************************)
(***************************************************************************)
(* The values torch.save writes and torch.load reads: a tensor, a list of  *)
(* tensors, a dict from strings to tensors.  A value is a record [kind,     *)
(* keys, items]: a tensor has one item, a list its items in order, a dict   *)
(* its keys and their items in insertion order.                            *)
(***************************************************************************)
Unbound == [kind |-> "none", keys |-> <<>>, items |-> <<>>]

TensorVal(T) == [kind |-> "tensor", keys |-> <<>>, items |-> <<T>>]

ListVal(ts) == [kind |-> "list", keys |-> <<>>, items |-> ts]

DictVal(ks, ts) == [kind |-> "dict", keys |-> ks, items |-> ts]

\* d[k] of a dict
Lookup(d, k) == d.items[CHOOSE n \in 1..Len(d.keys) : d.keys[n] = k]

\* the names of the kinds, of the dtypes and of the keys, as a file spells
\* them: by their number in these lists
KindNames == <<"tensor", "list", "dict">>

DtypeNames == <<"long", "float">>

KeyNames == <<"x", "y", "hidden.weight", "hidden.bias", "output.weight", "output.bias">>

IndexOf(seq, e) == CHOOSE n \in 1..Len(seq) : seq[n] = e

\* the elements of a tensor as integers: a long as itself, a float as its
\* numerator and its denominator
EncElems(T) ==
    IF T.dtype = "long" THEN T.data
    ELSE [k \in 1..(2 * Len(T.data)) |-> T.data[(k + 1) \div 2][IF k % 2 = 1 THEN 1 ELSE 2]]

\* a tensor: dtype, number of axes, shape, elements
EncTensor(T) == <<IndexOf(DtypeNames, T.dtype), Len(T.shape)>> \o T.shape \o EncElems(T)

RECURSIVE EncItems(_, _)
EncItems(v, n) ==
    IF n > Len(v.items) THEN <<>>
    ELSE (IF v.kind = "dict" THEN <<IndexOf(KeyNames, v.keys[n])>> ELSE <<>>)
             \o EncTensor(v.items[n]) \o EncItems(v, n + 1)

\* the content of the file torch.save(v, name) writes
Encode(v) == <<IndexOf(KindNames, v.kind), Len(v.items)>> \o EncItems(v, 1)

\* the tensor spelled from position p of b, and the position after it
DecTensor(b, p) ==
    LET dt == DtypeNames[b[p]]
        nd == b[p + 1]
        sh == SubSeq(b, p + 2, p + 1 + nd)
        n == Numel(sh)
        at == p + 2 + nd
    IN  [T |-> Tensor(dt, sh,
                      [k \in 1..n |->
                          IF dt = "float" THEN <<b[at + 2 * (k - 1)], b[at + 2 * (k - 1) + 1]>>
                          ELSE b[at + k - 1]]),
         next |-> at + (IF dt = "float" THEN 2 * n ELSE n)]

RECURSIVE DecItems(_, _, _, _)
DecItems(b, p, kind, n) ==
    IF n = 0 THEN [keys |-> <<>>, items |-> <<>>]
    ELSE LET key == IF kind = "dict" THEN <<KeyNames[b[p]]>> ELSE <<>>
             t == DecTensor(b, p + Len(key))
             rest == DecItems(b, t.next, kind, n - 1)
         IN  [keys |-> key \o rest.keys, items |-> <<t.T>> \o rest.items]

\* the value torch.load(name) builds from the content of the file
Decode(b) ==
    LET kind == KindNames[b[1]]
        r == DecItems(b, 3, kind, b[2])
    IN  [kind |-> kind, keys |-> r.keys, items |-> r.items]

FileNames == {"x-file", "x-files", "mydict", "mlp.params"}

\* the content of a file that does not exist
NoFile == <<>>

NoFiles == [f \in FileNames |-> NoFile]

\* a write that leaves its content in every file
WriteAll(fs, name, b) == [f \in DOMAIN fs |-> b]

\* the file name is created or replaced
Write(fs, name, b) == [fs EXCEPT ![name] = b]

\* the names of the read-write notebook, none bound yet
NoNames ==
    [x |-> Unbound, y |-> Unbound, mydict |-> Unbound,
     x2 |-> Unbound, y2 |-> Unbound, mydict2 |-> Unbound,
     net |-> Unbound, clone |-> Unbound, Y_clone |-> Unbound]

\* no name is bound in forward
NoLocals == [num_neighbours |-> NoTensor, node_feats |-> NoTensor, X |-> NoTensor]

\* no layer has been made, no graph is passed
NoLayer ==
    /\ self = [weight |-> NoTensor, bias |-> NoTensor, rand_weight |-> NoTensor]
    /\ node_feats = NoTensor
    /\ adj_matrix = NoTensor

\* forward has not been called
NoFrame == [X |-> NoTensor, executed |-> <<>>]

\* no call of the session is over yet
NoCall == [args |-> <<>>, pc |-> "none", ret |-> NoTensor, exc |-> NoExc]

Idle ==
    /\ pc = "call"
    /\ execution_count = 1
    /\ first = NoCall
    /\ Yp = NoTensor
    /\ pending = {}
    /\ names = NoNames
    /\ files = NoFiles
    /\ saved = [f \in FileNames |-> Unbound]
    /\ _modules = <<>>
    /\ idx = 0
    /\ frame = NoFrame
    /\ writes = <<>>
    /\ locals = NoLocals
    /\ Y = NoTensor
    /\ ret = NoTensor
    /\ i = 0
    /\ j = 0
    /\ exc = NoExc
    /\ Y1 = NoTensor
    /\ Y2 = NoTensor

InitCorr2d ==
    /\ fn = "corr2d"
    /\ X \in Grids("float")
    /\ K \in Kernels
    /\ pool_size = NoSize
    /\ mode = NoMode
    /\ conv2d = NoConv
    /\ stride = NoStride
    /\ blocks = <<>>
    /\ NoLayer
    /\ Idle

InitPool2d ==
    /\ fn = "pool2d"
    /\ X \in Grids("float") \cup Grids("long")
    /\ K = NoTensor
    /\ pool_size \in PoolSizes
    /\ mode \in Modes
    /\ conv2d = NoConv
    /\ stride = NoStride
    /\ blocks = <<>>
    /\ NoLayer
    /\ Idle

Init == InitCorr2d \/ InitPool2d

(***************************************************************************)
(* corr2d(X, K), statement by statement.                                   *)
(***************************************************************************)
Raise(e) ==
    /\ pc' = "raised"
    /\ exc' = e
    /\ UNCHANGED <<args, Y, i, j, ret, cell, nb>>

\* def corr2d(X, K) and def pool2d(X, pool_size, mode='max') have no
\* parameter for a stride: a call that passes one more argument is rejected
Accepts(st) == st = NoStride

\* h, w = K.shape; Y = torch.zeros(...)
Corr2dCall ==
    /\ pc = "call"
    /\ fn = "corr2d"
    /\ IF ~Accepts(stride) THEN Raise("TypeError")
       ELSE LET sh == OutShape(X.shape, K.shape[1], K.shape[2])
            IN  IF ZerosDefined(sh)
                THEN /\ Y' = Zeros(sh)
                     /\ i' = 0
                     /\ pc' = "for_i"
                     /\ UNCHANGED <<args, j, ret, exc, cell, nb>>
                ELSE Raise("RuntimeError")

\* an outer loop whose inner counter is not started afresh for each row
ForIKeepsJ ==
    IF i < Y.shape[1]
    THEN /\ pc' = "for_j"
         /\ UNCHANGED <<args, Y, i, j, ret, exc, cell, nb>>
    ELSE /\ pc' = "return"
         /\ UNCHANGED <<args, Y, i, j, ret, exc, cell, nb>>

\* for i in range(Y.shape[0]): one more row, or the loop is over
ForI ==
    IF i < Y.shape[1]
    THEN /\ j' = 0
         /\ pc' = "for_j"
         /\ UNCHANGED <<args, Y, i, ret, exc, cell, nb>>
    ELSE /\ pc' = "return"
         /\ UNCHANGED <<args, Y, i, j, ret, exc, cell, nb>>

Corr2dForI ==
    /\ pc = "for_i"
    /\ fn = "corr2d"
    /\ ForI

\* an outer loop that takes every other row
NextRowTwo ==
    /\ i' = i + 2
    /\ pc' = "for_i"
    /\ UNCHANGED <<args, Y, j, ret, exc, cell, nb>>

\* the row is over: back to the outer loop
NextRow ==
    /\ i' = i + 1
    /\ pc' = "for_i"
    /\ UNCHANGED <<args, Y, j, ret, exc, cell, nb>>

\* a body that writes through to the input grid as well
NextCellInPlace(Ynew) ==
    /\ Y' = Ynew
    /\ X' = Ynew
    /\ writes' = Append(writes, <<i, j>>)
    /\ j' = j + 1
    /\ UNCHANGED <<pc, fn, K, pool_size, mode, conv2d, stride, i, ret, exc, cell,
                   self, node_feats, adj_matrix, locals,
                   execution_count, first, Yp, pending, rw, ms>>

\* the body has run for cell (i, j): its store Y[i, j] = ... has left Ynew
NextCell(Ynew) ==
    /\ Y' = Ynew
    /\ writes' = Append(writes, <<i, j>>)
    /\ j' = j + 1
    /\ UNCHANGED <<pc, args, i, ret, exc, cell, self, node_feats, adj_matrix, locals,
                   execution_count, first, Yp, pending, rw, ms>>

\* a body that counts the cells of a mode it does not know
SkipCellCounted ==
    /\ Y' = SetAt(Y, i, j, <<1, 1>>)
    /\ j' = j + 1
    /\ UNCHANGED <<pc, args, i, ret, exc, cell, nb>>

\* neither branch of the body is taken for cell (i, j): nothing is stored
SkipCell ==
    /\ j' = j + 1
    /\ UNCHANGED <<pc, args, Y, i, ret, exc, cell, nb>>

\* for j in range(Y.shape[1]): Y[i, j] = (X[i:i + h, j:j + w] * K).sum()
Corr2dForJ ==
    /\ pc = "for_j"
    /\ fn = "corr2d"
    /\ IF j < Y.shape[2]
       THEN IF CorrCellDefined(X, K, i, j)
            THEN NextCell(SetAt(Y, i, j, CorrCell(X, K, i, j)))
            ELSE Raise("RuntimeError")
       ELSE NextRow

\* return Y
Return ==
    /\ pc = "return"
    /\ ret' = Y
    /\ pc' = "done"
    /\ UNCHANGED <<args, Y, i, j, exc, cell, nb>>

(***************************************************************************)
(* pool2d(X, pool_size, mode), statement by statement.                     *)
(***************************************************************************)
\* p_h, p_w = pool_size; Y = torch.zeros(...)
Pool2dCall ==
    /\ pc = "call"
    /\ fn = "pool2d"
    /\ IF ~Accepts(stride) THEN Raise("TypeError")
       ELSE LET sh == OutShape(X.shape, pool_size[1], pool_size[2])
            IN  IF ZerosDefined(sh)
                THEN /\ Y' = Zeros(sh)
                     /\ i' = 0
                     /\ pc' = "for_i"
                     /\ UNCHANGED <<args, j, ret, exc, cell, nb>>
                ELSE Raise("RuntimeError")

Pool2dForI ==
    /\ pc = "for_i"
    /\ fn = "pool2d"
    /\ ForI

\* Y[i, j] = X[i: i + p_h, j: j + p_w].max()
PoolMax ==
    IF MaxDefined(Window(X, pool_size, i, j))
    THEN NextCell(SetAt(Y, i, j, TMax(Window(X, pool_size, i, j))))
    ELSE Raise("RuntimeError")

\* Y[i, j] = X[i: i + p_h, j: j + p_w].mean()
PoolAvg ==
    IF MeanDefined(Window(X, pool_size, i, j))
    THEN NextCell(SetAt(Y, i, j, TMean(Window(X, pool_size, i, j))))
    ELSE Raise("RuntimeError")

\* if mode == 'max': ... elif mode == 'avg': ...
Pool2dForJ ==
    /\ pc = "for_j"
    /\ fn = "pool2d"
    /\ IF j < Y.shape[2]
       THEN IF mode = "max" THEN PoolMax
            ELSE IF mode = "avg" THEN PoolAvg
            ELSE SkipCell
       ELSE NextRow

Next ==
    \/ Corr2dCall
    \/ Corr2dForI
    \/ Corr2dForJ
    \/ Pool2dCall
    \/ Pool2dForI
    \/ Pool2dForJ
    \/ Return

Spec == Init /\ [][Next]_vars

\* the grids 0, 1, 2, ... of every shape, as X = torch.arange(n).reshape(sh)
RunGrids ==
    {Literal(dt, sh, [n \in 1..Numel(sh) |-> n - 1]) :
        dt \in Dtypes, sh \in Shapes(MaxCells) \cup {<<3, 3>>}}

InitRun ==
    /\ \/ /\ fn = "corr2d"
          /\ X \in {g \in RunGrids : g.dtype = "float"}
          /\ K \in Kernels
          /\ pool_size = NoSize
          /\ mode = NoMode
       \/ /\ fn = "pool2d"
          /\ X \in RunGrids
          /\ K = NoTensor
          /\ pool_size \in PoolSizes
          /\ mode \in Modes
    /\ conv2d = NoConv
    /\ stride = NoStride
    /\ blocks = <<>>
    /\ NoLayer
    /\ Idle

\* the call runs to its end: no statement of it waits for anything
Fairness ==
    /\ WF_vars(Corr2dCall)
    /\ WF_vars(Corr2dForI)
    /\ WF_vars(Corr2dForJ)
    /\ WF_vars(Pool2dCall)
    /\ WF_vars(Pool2dForI)
    /\ WF_vars(Pool2dForJ)
    /\ WF_vars(Return)

SpecRun == InitRun /\ [][Next]_vars /\ Fairness

(***************************************************************************)
(* The multi-channel cells of the channels notebook.                       *)
(***************************************************************************)
\* the shapes of n axes of at most m elements in all
RECURSIVE ShapesN(_, _)
ShapesN(n, m) ==
    IF n = 0 THEN {<<>>}
    ELSE UNION {{<<d>> \o sh : sh \in ShapesN(n - 1, m \div d)} : d \in 1..m}

\* X = torch.tensor([[[0.0, 1.0, 2.0], ...], [[1.0, 2.0, 3.0], ...]])
ExampleX2 ==
    Literal("float", <<2, 3, 3>>, <<0, 1, 2, 3, 4, 5, 6, 7, 8, 1, 2, 3, 4, 5, 6, 7, 8, 9>>)

\* K = torch.tensor([[[0.0, 1.0], [2.0, 3.0]], [[1.0, 2.0], [3.0, 4.0]]])
ExampleK2 == Literal("float", <<2, 2, 2>>, <<0, 1, 2, 3, 1, 2, 3, 4>>)

\* K = torch.stack((K, K + 1, K + 2), 0)
ExampleK3 ==
    Literal("float", <<3, 2, 2, 2>>,
            <<0, 1, 2, 3, 1, 2, 3, 4, 1, 2, 3, 4, 2, 3, 4, 5, 2, 3, 4, 5, 3, 4, 5, 6>>)

StackVals == {1, 2}

\* the grid stacks (C, H, W)
GridStacks == Tensors("float", ShapesN(3, MaxCells), StackVals) \cup {ExampleX2}

\* the weight stacks (C, kh, kw)
KernelStacks == Tensors("float", ShapesN(3, MaxKCells), Weights) \cup {ExampleK2}

\* the weights (O, C, kh, kw)
KernelStacksOut == Tensors("float", ShapesN(4, MaxKCells), Weights) \cup {ExampleK3}

\* the weights (O, C, 1, 1)
Kernels1x1 == {k \in KernelStacksOut : k.shape[3] = 1 /\ k.shape[4] = 1}

InitMultiIn ==
    /\ fn = "corr2d_multi_in"
    /\ X \in GridStacks
    /\ K \in KernelStacks
    /\ pool_size = NoSize
    /\ mode = NoMode
    /\ conv2d = NoConv
    /\ stride = NoStride
    /\ blocks = <<>>
    /\ NoLayer
    /\ Idle

\* the weights here have as many input channels as the grid stack
InitMultiInOut ==
    /\ fn = "corr2d_multi_in_out"
    /\ X \in GridStacks
    /\ K \in {k \in KernelStacksOut : k.shape[2] = X.shape[1]}
    /\ pool_size = NoSize
    /\ mode = NoMode
    /\ conv2d = NoConv
    /\ stride = NoStride
    /\ blocks = <<>>
    /\ NoLayer
    /\ Idle

InitValidate1x1 ==
    /\ fn = "validate_1x1"
    /\ X \in GridStacks
    /\ K \in Kernels1x1
    /\ pool_size = NoSize
    /\ mode = NoMode
    /\ conv2d = NoConv
    /\ stride = NoStride
    /\ blocks = <<>>
    /\ NoLayer
    /\ Idle

\* corr2d_multi_in(X, K)
MultiInCall ==
    /\ pc = "call"
    /\ fn = "corr2d_multi_in"
    /\ \E v \in {Corr2dMultiIn(X, K)} :
          IF v = Raised THEN Raise("RuntimeError")
          ELSE /\ ret' = v
               /\ pc' = "done"
               /\ UNCHANGED <<args, Y, i, j, exc, cell, nb>>

\* corr2d_multi_in_out(X, K)
MultiInOutCall ==
    /\ pc = "call"
    /\ fn = "corr2d_multi_in_out"
    /\ \E v \in {Corr2dMultiInOut(X, K)} :
          IF v = Raised THEN Raise("RuntimeError")
          ELSE /\ ret' = v
               /\ pc' = "done"
               /\ UNCHANGED <<args, Y, i, j, exc, cell, nb>>

\* Y1 = corr2d_multi_in_out_1x1(X, K)
ValidateY1 ==
    /\ pc = "call"
    /\ fn = "validate_1x1"
    /\ \E v \in {Corr2dMultiInOut1x1(X, K)} :
          IF v = Raised THEN Raise("RuntimeError")
          ELSE /\ Y1' = v
               /\ pc' = "Y2"
               /\ UNCHANGED <<args, Y, i, j, ret, exc, Y2, nb>>

\* Y2 = corr2d_multi_in_out(X, K)
ValidateY2 ==
    /\ pc = "Y2"
    /\ \E v \in {Corr2dMultiInOut(X, K)} :
          IF v = Raised THEN Raise("RuntimeError")
          ELSE /\ Y2' = v
               /\ pc' = "assert"
               /\ UNCHANGED <<args, Y, i, j, ret, exc, Y1, nb>>

\* assert float(torch.abs(Y1 - Y2).sum()) < 1e-6
ValidateAssert ==
    /\ pc = "assert"
    /\ IF Y1.shape # Y2.shape THEN Raise("RuntimeError")
       ELSE IF RLess(AbsDiffSum(Y1, Y2), Tolerance)
            THEN /\ pc' = "done"
                 /\ UNCHANGED <<args, Y, i, j, ret, exc, cell, nb>>
            ELSE Raise("AssertionError")

NextValidate ==
    \/ ValidateY1
    \/ ValidateY2
    \/ ValidateAssert

\* the cell that calls corr2d_multi_in
SpecMultiIn == InitMultiIn /\ [][MultiInCall]_vars

\* the cell that calls corr2d_multi_in_out
SpecMultiInOut == InitMultiInOut /\ [][MultiInOutCall]_vars

\* the cell that validates corr2d_multi_in_out_1x1
SpecValidate == InitValidate1x1 /\ [][NextValidate]_vars

(***************************************************************************)
(* comp_conv2d(conv2d, X) of the padding-and-stride notebook.  The values  *)
(* of X (torch.rand) and of the layer's output play no part in the cell's  *)
(* result, a shape: a tensor is carried here without its data.             *)
(***************************************************************************)
Opaque(sh) == [dtype |-> "float", shape |-> sh, data |-> <<>>]

\* an output size that drops the + s of the numerator
OutSizeNoStride(n, k, p, s) == (n - k + p) \div s

\* an output size rounded up instead of down
OutSizeCeil(n, k, p, s) == -((-(n - k + p + s)) \div s)

\* floor((n - k + p + s) / s): the output size along one axis for input size
\* n, kernel size k, p rows or columns of padding in total and stride s
OutSize(n, k, p, s) == (n - k + p + s) \div s

\* padding=q pads q rows or columns on either side, 2q in total
TotalPadding(q) == 2 * q

\* the layer rejects a kernel larger than its padded input
ConvDefined(Xs, c) ==
    \A a \in 1..2 : Xs[a] + TotalPadding(c.padding[a]) >= c.kernel_size[a]

\* the shape of conv2d(X) without the batch and channel axes
ConvShape(Xs, c) ==
    [a \in 1..2 |->
        OutSize(Xs[a], c.kernel_size[a], TotalPadding(c.padding[a]), c.stride[a])]

InitCompConv2d ==
    /\ fn = "comp_conv2d"
    /\ X \in {Opaque(sh) : sh \in (1..MaxN) \X (1..MaxN)}
    /\ K = NoTensor
    /\ pool_size = NoSize
    /\ mode = NoMode
    /\ conv2d \in [kernel_size : (1..MaxKh) \X (1..MaxKw),
                    padding : (0..MaxPad) \X (0..MaxPad),
                    stride : (1..MaxSh) \X (1..MaxSw)]
    /\ stride = NoStride
    /\ blocks = <<>>
    /\ NoLayer
    /\ Idle

\* X = X.reshape((1, 1) + X.shape); Y = conv2d(X); return Y.reshape(Y.shape[2:])
CompConv2d ==
    /\ pc = "call"
    /\ fn = "comp_conv2d"
    /\ IF ConvDefined(X.shape, conv2d)
       THEN /\ ret' = Opaque(ConvShape(X.shape, conv2d))
            /\ pc' = "done"
            /\ UNCHANGED <<args, Y, i, j, exc, cell, nb>>
       ELSE Raise("RuntimeError")

\* the reducers written by hand and the strided library layer
InitShapes == Init \/ InitCompConv2d

NextShapes == Next \/ CompConv2d

SpecShapes == InitShapes /\ [][NextShapes]_vars

(***************************************************************************)
(* The output shape of the notebook's text, for rows and columns of        *)
(* padding given in total (p_h, p_w), an odd or an even number.            *)
(***************************************************************************)
\* the totals of padding tried along an axis with kernel size k: the k - 1
\* of the text, and the most that a layer of the model pads
Paddings(k) == {k - 1, TotalPadding(MaxPad)}

\* n_h x n_w, k_h x k_w, p_h and p_w, s_h and s_w
InitOutputShape ==
    /\ fn = "output_shape"
    /\ X \in {Opaque(sh) : sh \in (1..MaxN) \X (1..MaxN)}
    /\ K = NoTensor
    /\ pool_size = NoSize
    /\ mode = NoMode
    /\ \E ks \in (1..MaxKh) \X (1..MaxKw) :
          conv2d \in [kernel_size : {ks},
                      padding : Paddings(ks[1]) \X Paddings(ks[2]),
                      stride : (1..MaxSh) \X (1..MaxSw)]
    /\ stride = NoStride
    /\ blocks = <<>>
    /\ NoLayer
    /\ Idle

\* floor((n_h - k_h + p_h + s_h) / s_h) x floor((n_w - k_w + p_w + s_w) / s_w)
OutputShape ==
    /\ pc = "call"
    /\ fn = "output_shape"
    /\ ret' = Opaque([a \in 1..2 |->
                         OutSize(X.shape[a], conv2d.kernel_size[a], conv2d.padding[a],
                                 conv2d.stride[a])])
    /\ pc' = "done"
    /\ UNCHANGED <<args, Y, i, j, exc, cell, nb>>

SpecOutputShape == InitOutputShape /\ [][OutputShape]_vars

(***************************************************************************)
(* Calls of corr2d and pool2d that pass a stride as one more argument.     *)
(***************************************************************************)
StridedGrids ==
    {Literal("float", <<2, 2>>, <<0, 1, 2, 3>>),
     Literal("float", <<3, 3>>, <<0, 1, 2, 3, 4, 5, 6, 7, 8>>),
     Literal("float", <<1, 3>>, <<1, 2, 4>>)}

\* the strides greater than (1, 1) on some axis
Strides == ((1..MaxSh) \X (1..MaxSw)) \ {<<1, 1>>}

InitStrided ==
    /\ \/ /\ fn = "corr2d"
          /\ K \in {ExampleK, Literal("float", <<1, 1>>, <<2>>)}
          /\ pool_size = NoSize
          /\ mode = NoMode
       \/ /\ fn = "pool2d"
          /\ K = NoTensor
          /\ pool_size \in {<<1, 1>>, <<2, 2>>}
          /\ mode \in {"max", "avg"}
    /\ X \in StridedGrids
    /\ conv2d = NoConv
    /\ stride \in Strides
    /\ blocks = <<>>
    /\ NoLayer
    /\ Idle

SpecStride == (Init \/ InitStrided) /\ [][Next]_vars

(***************************************************************************)
(* A notebook session: the cells call the functions one after the other.   *)
(* The names Y, i and j of a new call hold what the call before left in    *)
(* them until the call binds them.                                         *)
(***************************************************************************)
MaxCalls == 3

SessionGrids ==
    {Literal("float", <<2, 2>>, <<0, 1, 2, 3>>),
     Literal("long", <<2, 2>>, <<0, 1, 2, 3>>),
     Literal("float", <<2, 2>>, <<1, 0, -1, 1>>),
     Literal("float", <<1, 3>>, <<1, 2, 4>>)}

SessionKernels ==
    Tensors("float", {<<1, 2>>}, Weights)
        \cup {Literal("float", <<1, 1>>, <<2>>), Literal("float", <<3, 1>>, <<1, 1, 1>>)}

SessionPoolSizes == {<<1, 2>>, <<2, 2>>, <<3, 1>>}

\* the calls a cell of the session can make, as tuples of arguments
SessionCalls ==
    UNION {
        {<<"corr2d", x, k, NoSize, NoMode, NoConv>> :
            x \in {g \in SessionGrids : g.dtype = "float"}, k \in SessionKernels},
        {<<"pool2d", x, NoTensor, ps, m, NoConv>> :
            x \in SessionGrids, ps \in SessionPoolSizes, m \in {"max", "avg"}},
        {<<"corr2d_multi_in", ExampleX2, k, NoSize, NoMode, NoConv>> :
            k \in {ExampleK2, Item(ExampleK3, 1)}},
        {<<"corr2d_multi_in_out", ExampleX2, ExampleK3, NoSize, NoMode, NoConv>>}}

InitSession ==
    /\ \E c \in SessionCalls :
          /\ fn = c[1]
          /\ X = c[2]
          /\ K = c[3]
          /\ pool_size = c[4]
          /\ mode = c[5]
          /\ conv2d = c[6]
    /\ stride = NoStride
    /\ blocks = <<>>
    /\ NoLayer
    /\ Idle

\* the call is over (returned or raised); the next cell calls again
NextCall ==
    /\ pc \in {"done", "raised"}
    /\ execution_count < MaxCalls
    /\ execution_count' = execution_count + 1
    /\ first' = IF first = NoCall
                THEN [args |-> args, pc |-> pc, ret |-> ret, exc |-> exc]
                ELSE first
    /\ \E c \in SessionCalls :
          /\ fn' = c[1]
          /\ X' = c[2]
          /\ K' = c[3]
          /\ pool_size' = c[4]
          /\ mode' = c[5]
          /\ conv2d' = c[6]
    /\ stride' = NoStride
    /\ pc' = "call"
    /\ ret' = NoTensor
    /\ exc' = NoExc
    /\ writes' = <<>>
    /\ UNCHANGED <<Y, i, j, cell, self, node_feats, adj_matrix, locals, Yp, pending, rw, ms>>

NextSession ==
    \/ Next
    \/ MultiInCall
    \/ MultiInOutCall
    \/ NextCall

SpecSession == InitSession /\ [][NextSession]_vars

(***************************************************************************)
(* The loop body of corr2d and pool2d run once for each cell of the output *)
(* in an order that is not fixed (one worker per cell), after the call has *)
(* returned the grid of the row-major loops.                               *)
(***************************************************************************)
\* the cells (r, c) of a 2-D tensor
CellsOf(T) == (0..(T.shape[1] - 1)) \X (0..(T.shape[2] - 1))

\* a store that fills the output in the order in which the cells arrive
WriteNextSlot(Yc, r, c, v) ==
    [Yc EXCEPT !.data[Len(Yc.data) - Cardinality(pending) + 1] = v]

\* Y[i, j] = v
WriteCell(Yc, r, c, v) == SetAt(Yc, r, c, v)

\* the loop body for the cell (r, c): the grid it leaves
Body(Yc, r, c) ==
    IF fn = "corr2d" THEN WriteCell(Yc, r, c, CorrCell(X, K, r, c))
    ELSE IF mode = "max" THEN WriteCell(Yc, r, c, TMax(Window(X, pool_size, r, c)))
    ELSE IF mode = "avg" THEN WriteCell(Yc, r, c, TMean(Window(X, pool_size, r, c)))
    ELSE Yc

\* Y = torch.zeros(...) once more, and every cell is still to do
ParStart ==
    /\ pc = "done"
    /\ fn \in {"corr2d", "pool2d"}
    /\ Len(ret.data) <= MaxCells
    /\ Yp' = Zeros(ret.shape)
    /\ pending' = CellsOf(ret)
    /\ pc' = "cells"
    /\ UNCHANGED <<args, Y, i, j, ret, exc, cell, ext, execution_count, first, rw, ms>>

\* the body runs for some cell that is still to do
ParCell ==
    /\ pc = "cells"
    /\ \E c \in pending :
          /\ Yp' = Body(Yp, c[1], c[2])
          /\ pending' = pending \ {c}
    /\ UNCHANGED <<pc, args, Y, i, j, ret, exc, cell, ext, execution_count, first, rw, ms>>

\* every cell is done
ParJoin ==
    /\ pc = "cells"
    /\ pending = {}
    /\ pc' = "joined"
    /\ UNCHANGED <<args, Y, i, j, ret, exc, cell, nb>>

NextAnyOrder ==
    \/ Next
    \/ ParStart
    \/ ParCell
    \/ ParJoin

SpecAnyOrder == Init /\ [][NextAnyOrder]_vars

(***************************************************************************)
(* The read-write notebook, part 1: tensors, a list and a dict saved and   *)
(* loaded.  Its statements can be run, and run again, in any order; pc     *)
(* names the statement run last and exc the error it raised, if any.       *)
(***************************************************************************)
MaxLen == 4

\* torch.arange(n)
Arange(n) == Tensor("long", <<n>>, [k \in 1..n |-> k - 1])

\* the lengths n of x = torch.arange(n) and y = torch.zeros(n)
Lens == {MaxLen - 2, MaxLen}

InitReadWrite ==
    /\ fn = "read_write"
    /\ X = NoTensor
    /\ K = NoTensor
    /\ pool_size = NoSize
    /\ mode = NoMode
    /\ conv2d = NoConv
    /\ stride = NoStride
    /\ blocks = <<>>
    /\ NoLayer
    /\ Idle

\* the statement raised e: nothing is bound, nothing is written
StmtRaise(stmt, e) ==
    /\ pc' = stmt
    /\ exc' = e
    /\ UNCHANGED <<args, Y, i, j, ret, cell, nb>>

\* the statement ran: it left the names ns, the files fs, and the values sv
\* as the ones last saved
Stmt(stmt, ns, fs, sv) ==
    /\ pc' = stmt
    /\ exc' = NoExc
    /\ names' = ns
    /\ files' = fs
    /\ saved' = sv
    /\ UNCHANGED <<args, Y, i, j, ret, cell, ext, execution_count, first, Yp, pending, ms>>

\* torch.save(v, name): v is an expression over names that may be unbound
Save(stmt, v, bound, name) ==
    IF ~bound THEN StmtRaise(stmt, "NameError")
    ELSE Stmt(stmt, names, Write(files, name, Encode(v)), [saved EXCEPT ![name] = v])

\* x = torch.arange(4)
AssignX ==
    \E n \in Lens : Stmt("x", [names EXCEPT !.x = TensorVal(Arange(n))], files, saved)

\* torch.save(x, 'x-file')
SaveX == Save("save_x", names.x, names.x # Unbound, "x-file")

\* x2 = torch.load('x-file')
LoadX ==
    IF files["x-file"] = NoFile THEN StmtRaise("load_x", "FileNotFoundError")
    ELSE Stmt("load_x", [names EXCEPT !.x2 = Decode(files["x-file"])], files, saved)

\* y = torch.zeros(4)
AssignY == Stmt("y", [names EXCEPT !.y = TensorVal(Zeros(<<MaxLen>>))], files, saved)

\* torch.save([x, y], 'x-files')
SaveList ==
    Save("save_list", ListVal(names.x.items \o names.y.items),
         names.x # Unbound /\ names.y # Unbound, "x-files")

\* x2, y2 = torch.load('x-files')
LoadList ==
    IF files["x-files"] = NoFile THEN StmtRaise("load_list", "FileNotFoundError")
    ELSE \E v \in {Decode(files["x-files"])} :
            IF Len(v.items) # 2 THEN StmtRaise("load_list", "ValueError")
            ELSE Stmt("load_list",
                      [names EXCEPT !.x2 = TensorVal(v.items[1]), !.y2 = TensorVal(v.items[2])],
                      files, saved)

\* mydict = {'x': x, 'y': y}
AssignDict ==
    IF names.x = Unbound \/ names.y = Unbound THEN StmtRaise("mydict", "NameError")
    ELSE Stmt("mydict",
              [names EXCEPT !.mydict = DictVal(<<"x", "y">>, names.x.items \o names.y.items)],
              files, saved)

\* torch.save(mydict, 'mydict')
SaveDict == Save("save_dict", names.mydict, names.mydict # Unbound, "mydict")

\* mydict2 = torch.load('mydict')
LoadDict ==
    IF files["mydict"] = NoFile THEN StmtRaise("load_dict", "FileNotFoundError")
    ELSE Stmt("load_dict", [names EXCEPT !.mydict2 = Decode(files["mydict"])], files, saved)

NextReadWrite ==
    /\ fn = "read_write"
    /\ \/ AssignX
       \/ SaveX
       \/ LoadX
       \/ AssignY
       \/ SaveList
       \/ LoadList
       \/ AssignDict
       \/ SaveDict
       \/ LoadDict

SpecReadWrite == InitReadWrite /\ [][NextReadWrite]_vars

(***************************************************************************)
(* The read-write notebook, part 2: the parameters of an MLP saved and     *)
(* loaded into a clone.  The layers Linear(20, 256) and Linear(256, 10)    *)
(* are modelled at the sizes Linear(2, 2) and Linear(2, 1), and X with one *)
(* row; a module is the dict of its parameters, its state_dict().          *)
(***************************************************************************)
\* A.T of a 2-D tensor
Transpose(A) ==
    Tensor(A.dtype, <<A.shape[2], A.shape[1]>>,
           [n \in 1..Len(A.data) |-> At(A, (n - 1) % A.shape[1], (n - 1) \div A.shape[1])])

\* A + b: the 1-D tensor b is added to every row of A
AddBias(A, b) ==
    Tensor("float", A.shape,
           [n \in 1..Len(A.data) |-> RAdd(A.data[n], b.data[((n - 1) % A.shape[2]) + 1])])

\* F.relu(A)
Relu(A) ==
    [A EXCEPT !.data = [n \in 1..Len(A.data) |->
                           IF RLess(A.data[n], <<0, 1>>) THEN <<0, 1>> ELSE A.data[n]]]

\* nn.Linear: x W^T + b
Linear(xt, Wt, b) == AddBias(MatMul(xt, Transpose(Wt)), b)

\* MLP.forward: self.output(F.relu(self.hidden(x)))
Forward(m, xt) ==
    Linear(Relu(Linear(xt, Lookup(m, "hidden.weight"), Lookup(m, "hidden.bias"))),
           Lookup(m, "output.weight"), Lookup(m, "output.bias"))

ParamNames == <<"hidden.weight", "hidden.bias", "output.weight", "output.bias">>

\* MLP(): the parameters are initialised at random
Nets ==
    {DictVal(ParamNames, <<hw, hb, ow, ob>>) :
        hw \in Tensors("float", {<<2, 2>>}, Weights),
        hb \in Tensors("float", {<<2>>}, {0, 1}),
        ow \in Tensors("float", {<<1, 2>>}, Weights),
        ob \in Tensors("float", {<<1>>}, {0, 1})}

\* the initialisations drawn for the clone
FreshNets == {m \in Nets : \A n \in {1, 3} : \A k \in 1..Len(m.items[n].data) :
                                m.items[n].data[k] = <<1, 1>>}

\* torch.randn(size=(2, 20))
Inputs == Tensors("float", {<<1, 2>>}, Vals)

\* a load that copies the weights and leaves the biases as they are
LoadWeightsOnly(m, sd) ==
    DictVal(m.keys, [n \in 1..Len(m.keys) |->
                        IF n \in {1, 3} THEN Lookup(sd, m.keys[n]) ELSE m.items[n]])

\* load_state_dict(sd): every parameter of the module is replaced by the
\* tensor the dict holds under its name
LoadStateDict(m, sd) ==
    DictVal(m.keys, [n \in 1..Len(m.keys) |-> Lookup(sd, m.keys[n])])

\* load_state_dict is strict: the keys must be those of the module
LoadDefined(m, sd) ==
    /\ sd.kind = "dict"
    /\ {sd.keys[n] : n \in 1..Len(sd.keys)} = {m.keys[n] : n \in 1..Len(m.keys)}

\* A == B, elementwise
Eq(A, B) == Tensor("bool", A.shape, [n \in 1..Len(A.data) |-> A.data[n] = B.data[n]])

InitParams ==
    /\ fn = "read_write_params"
    /\ X = NoTensor
    /\ K = NoTensor
    /\ pool_size = NoSize
    /\ mode = NoMode
    /\ conv2d = NoConv
    /\ stride = NoStride
    /\ blocks = <<>>
    /\ NoLayer
    /\ Idle

\* a statement of this part binds names and goes on to the next
Bind(next, ns) ==
    /\ pc' = next
    /\ names' = ns
    /\ UNCHANGED <<args, Y, i, j, ret, exc, cell, ext, execution_count, first, Yp, pending,
                   files, saved, ms>>

\* net = MLP()
NetNew ==
    /\ pc = "call"
    /\ \E m \in Nets : Bind("X", [names EXCEPT !.net = m])

\* X = torch.randn(size=(2, 20))
InputNew ==
    /\ pc = "X"
    /\ X' \in Inputs
    /\ pc' = "Y"
    /\ UNCHANGED <<fn, K, pool_size, mode, conv2d, stride, Y, i, j, ret, exc, cell, nb>>

\* Y = net(X)
NetForward ==
    /\ pc = "Y"
    /\ Y' = Forward(names.net, X)
    /\ pc' = "save"
    /\ UNCHANGED <<args, i, j, ret, exc, cell, nb>>

\* torch.save(net.state_dict(), 'mlp.params')
SaveParams ==
    /\ pc = "save"
    /\ files' = Write(files, "mlp.params", Encode(names.net))
    /\ saved' = [saved EXCEPT !["mlp.params"] = names.net]
    /\ pc' = "clone"
    /\ UNCHANGED <<args, Y, i, j, ret, exc, cell, ext, execution_count, first, Yp, pending, names, ms>>

\* clone = MLP()
CloneNew ==
    /\ pc = "clone"
    /\ \E m \in FreshNets : Bind("load", [names EXCEPT !.clone = m])

\* clone.load_state_dict(torch.load('mlp.params'))
CloneLoad ==
    /\ pc = "load"
    /\ \E sd \in {Decode(files["mlp.params"])} :
          IF LoadDefined(names.clone, sd)
          THEN Bind("eval", [names EXCEPT !.clone = LoadStateDict(names.clone, sd)])
          ELSE Raise("RuntimeError")

\* clone.eval(): no parameter changes
CloneEval ==
    /\ pc = "eval"
    /\ Bind("Y_clone", names)

\* Y_clone = clone(X); Y_clone == Y
CloneForward ==
    /\ pc = "Y_clone"
    /\ \E v \in {Forward(names.clone, X)} :
          /\ names' = [names EXCEPT !.Y_clone = TensorVal(v)]
          /\ ret' = Eq(v, Y)
    /\ pc' = "done"
    /\ UNCHANGED <<args, Y, i, j, exc, cell, ext, execution_count, first, Yp, pending, files, saved, ms>>

NextParams ==
    /\ fn = "read_write_params"
    /\ \/ NetNew
       \/ InputNew
       \/ NetForward
       \/ SaveParams
       \/ CloneNew
       \/ CloneLoad
       \/ CloneEval
       \/ CloneForward

SpecParams == InitParams /\ [][NextParams]_vars

(***************************************************************************)
(* MySequential of the model-construction notebook.  A block is a layer    *)
(* nn.Linear (with one feature in and out here) or nn.ReLU.                *)
(***************************************************************************)
MaxBlocks == 3

\* nn.Linear(1, 1) with weight w and bias b, and nn.ReLU()
LinearBlock(w, b) ==
    [kind |-> "Linear", weight |-> Literal("float", <<1, 1>>, <<w>>),
     bias |-> Literal("float", <<1>>, <<b>>)]

ReLUBlock == [kind |-> "ReLU", weight |-> NoTensor, bias |-> NoTensor]

Blocks == {LinearBlock(2, 0), LinearBlock(1, 1), LinearBlock(-1, 0), ReLUBlock}

\* block(X)
Apply(b, xt) == IF b.kind = "ReLU" THEN Relu(xt) ELSE Linear(xt, b.weight, b.bias)

\* str(idx), for idx < 10
Str(n) == <<"0", "1", "2", "3", "4", "5", "6", "7", "8", "9">>[n + 1]

\* the positions of the key k in an OrderedDict
Where(od, k) == {n \in 1..Len(od) : od[n].key = k}

\* an assignment that puts a new key before the others
SetItemFirst(od, k, v) ==
    IF Where(od, k) = {} THEN <<[key |-> k, module |-> v]>> \o od
    ELSE [od EXCEPT ![CHOOSE n \in Where(od, k) : TRUE].module = v]

\* od[k] = v of an OrderedDict: a new key goes last, a key already there
\* keeps its place
SetItem(od, k, v) ==
    IF Where(od, k) = {} THEN Append(od, [key |-> k, module |-> v])
    ELSE [od EXCEPT ![CHOOSE n \in Where(od, k) : TRUE].module = v]

\* the lists of at most n blocks
RECURSIVE BlockLists(_)
BlockLists(n) ==
    IF n = 0 THEN {<<>>}
    ELSE BlockLists(n - 1)
             \cup {Append(bs, b) : bs \in {l \in BlockLists(n - 1) : Len(l) = n - 1}, b \in Blocks}

\* net = MySequential(*blocks) is about to run, then net(X)
InitMySequential ==
    /\ fn = "MySequential"
    /\ X \in Tensors("float", {<<1, 1>>}, Vals)
    /\ K = NoTensor
    /\ pool_size = NoSize
    /\ mode = NoMode
    /\ conv2d = NoConv
    /\ stride = NoStride
    /\ blocks \in BlockLists(MaxBlocks)
    /\ NoLayer
    /\ Idle

\* for idx, module in enumerate(args): self._modules[str(idx)] = module
MySequentialInit ==
    /\ pc = "call"
    /\ fn = "MySequential"
    /\ IF idx < Len(blocks)
       THEN /\ _modules' = SetItem(_modules, Str(idx), blocks[idx + 1])
            /\ idx' = idx + 1
            /\ UNCHANGED <<pc, args, Y, i, j, ret, exc, cell, ext, execution_count, first,
                           Yp, pending, rw, blocks, frame>>
       ELSE /\ pc' = "constructed"
            /\ UNCHANGED <<args, Y, i, j, ret, exc, cell, nb>>

\* net(X): forward is entered with its own X bound to the argument
ForwardCall ==
    /\ pc = "constructed"
    /\ frame' = [X |-> X, executed |-> <<>>]
    /\ idx' = 0
    /\ pc' = "forward"
    /\ UNCHANGED <<args, Y, i, j, ret, exc, cell, ext, execution_count, first,
                   Yp, pending, rw, blocks, _modules>>

\* for block in self._modules.values(): X = block(X)
ForwardLoop ==
    /\ pc = "forward"
    /\ IF idx < Len(_modules)
       THEN /\ frame' = [X |-> Apply(_modules[idx + 1].module, frame.X),
                         executed |-> Append(frame.executed, _modules[idx + 1].key)]
            /\ idx' = idx + 1
            /\ UNCHANGED <<pc, args, Y, i, j, ret, exc, cell, ext, execution_count, first,
                           Yp, pending, rw, blocks, _modules>>
       ELSE /\ ret' = frame.X
            /\ pc' = "done"
            /\ UNCHANGED <<args, Y, i, j, exc, cell, nb>>

NextMySequential ==
    \/ MySequentialInit
    \/ ForwardCall
    \/ ForwardLoop

SpecMySequential == InitMySequential /\ [][NextMySequential]_vars

(***************************************************************************)
(* Object edge detection: corr2d on black (0) and white (1) images.        *)
(***************************************************************************)
\* an image has at most MaxPixels pixels
MaxPixels == 6

\* X = torch.ones((6, 8)); X[:, 2:6] = 0
Image ==
    Tensor("float", <<6, 8>>,
           [n \in 1..48 |-> IF (n - 1) % 8 \in 2..5 THEN <<0, 1>> ELSE <<1, 1>>])

\* K = torch.tensor([[1.0, -1.0]])
EdgeK == Literal("float", <<1, 2>>, <<1, -1>>)

\* the black and white images, the image of the notebook and its transpose
Images == Tensors("float", Shapes(MaxPixels), {0, 1}) \cup {Image, Transpose(Image)}

\* Y = corr2d(X, K) is about to run
InitEdges ==
    /\ fn = "corr2d"
    /\ X \in Images
    /\ K = EdgeK
    /\ pool_size = NoSize
    /\ mode = NoMode
    /\ conv2d = NoConv
    /\ stride = NoStride
    /\ blocks = <<>>
    /\ NoLayer
    /\ Idle

NextEdges ==
    \/ Corr2dCall
    \/ Corr2dForI
    \/ Corr2dForJ
    \/ Return

SpecEdges == InitEdges /\ [][NextEdges]_vars

(***************************************************************************)
(* GCNLayer of the graph notebook.  Tensors of three axes [b, i, k] are    *)
(* kept row-major like the others.                                         *)
(***************************************************************************)
\* a batch of adjacency matrices has at most MaxAdj elements in all
MaxAdj == 9

\* T[b, r, c] of a 3-D tensor
At3(T, b, r, c) == T.data[(b * T.shape[2] + r) * T.shape[3] + c + 1]

\* the sum of the float terms t[1], ..., t[Len(t)]
Sum(t) == SumFrom("float", t, 1)

\* a / b of two finite floats: x/0 is an infinity, 0/0 is nan
RDiv(a, b) ==
    IF b[1] # 0 THEN Rat(a[1] * b[2], a[2] * b[1])
    ELSE IF a[1] = 0 THEN NaN
    ELSE IF a[1] > 0 THEN <<1, 0>> ELSE <<-1, 0>>

\* a sum over the first node axis instead: the column sums
SumFirst(A) ==
    Tensor("float", <<A.shape[1], A.shape[2], 1>>,
           [n \in 1..(A.shape[1] * A.shape[2]) |->
               Sum([m \in 1..A.shape[2] |->
                       At3(A, (n - 1) \div A.shape[2], m - 1, (n - 1) % A.shape[2])])])

\* A.sum(dim=-1, keepdims=True): the sum over the last axis, which is kept
\* with length 1
SumLast(A) ==
    Tensor("float", <<A.shape[1], A.shape[2], 1>>,
           [n \in 1..(A.shape[1] * A.shape[2]) |->
               Sum([m \in 1..A.shape[3] |->
                       At3(A, (n - 1) \div A.shape[2], (n - 1) % A.shape[2], m - 1)])])

\* nn.Linear on the last axis: out[b, i, o] = sum_k T[b, i, k] * weight[o, k] + bias[o]
Projection(layer, T) ==
    LET co == layer.weight.shape[1]
    IN  Tensor("float", <<T.shape[1], T.shape[2], co>>,
               [n \in 1..(T.shape[1] * T.shape[2] * co) |->
                   LET b == (n - 1) \div (T.shape[2] * co)
                       r == ((n - 1) \div co) % T.shape[2]
                       o == (n - 1) % co
                   IN  RAdd(Sum([k \in 1..T.shape[3] |->
                                    RMul(At3(T, b, r, k - 1), At(layer.weight, o, k - 1))]),
                            layer.bias.data[o + 1])])

\* torch.bmm(A, F): out[b, i, k] = sum_j A[b, i, j] * F[b, j, k]
Bmm(A, F) ==
    Tensor("float", <<A.shape[1], A.shape[2], F.shape[3]>>,
           [n \in 1..(A.shape[1] * A.shape[2] * F.shape[3]) |->
               LET b == (n - 1) \div (A.shape[2] * F.shape[3])
                   r == ((n - 1) \div F.shape[3]) % A.shape[2]
                   c == (n - 1) % F.shape[3]
               IN  Sum([m \in 1..A.shape[3] |->
                           RMul(At3(A, b, r, m - 1), At3(F, b, m - 1, c))])])

\* F / N with N of shape [b, i, 1] broadcast over the last axis
DivBroadcast(F, N) ==
    Tensor("float", F.shape,
           [n \in 1..Len(F.data) |-> RDiv(F.data[n], N.data[((n - 1) \div F.shape[3]) + 1])])

\* node_feats = torch.arange(8, dtype=torch.float32).view(1, 4, 2)
ExampleFeats == Literal("float", <<1, 4, 2>>, <<0, 1, 2, 3, 4, 5, 6, 7>>)

\* adj_matrix of the example graph, with the self-connections
ExampleAdj ==
    Literal("float", <<1, 4, 4>>, <<1, 1, 0, 0,  1, 1, 1, 1,  0, 1, 1, 1,  0, 1, 1, 1>>)

\* the shapes [batch_size, num_nodes, num_nodes] of at most MaxAdj elements
AdjShapes ==
    {sh \in (1..MaxAdj) \X (1..MaxAdj) \X (1..MaxAdj) :
        sh[2] = sh[3] /\ sh[1] * sh[2] * sh[3] <= MaxAdj}

\* the batches of adjacency matrices of these shapes, directed or not, with
\* or without the self-connections, and the example
AdjMatrices == Tensors("float", AdjShapes, {0, 1}) \cup {ExampleAdj}

\* node features 0, 1, 2, ... with c_in features for each node of the graphs of A
FeatsFor(A) ==
    {Literal("float", <<A.shape[1], A.shape[2], c>>,
             [n \in 1..(A.shape[1] * A.shape[2] * c) |-> n - 1]) : c \in 1..2}

\* the layer GCNLayer(c, c) with projection weight w times the identity and
\* bias 0
Scaled(c, w) ==
    [weight |-> Literal("float", <<c, c>>,
                        [n \in 1..(c * c) |-> IF (n - 1) \div c = (n - 1) % c THEN w ELSE 0]),
     bias |-> Literal("float", <<c>>, [n \in 1..c |-> 0]),
     rand_weight |-> NoTensor]

\* layer = GCNLayer(c_in, c_out) with the parameters set; layer(node_feats, adj_matrix)
InitGCN ==
    /\ fn = "GCNLayer"
    /\ X = NoTensor
    /\ K = NoTensor
    /\ pool_size = NoSize
    /\ mode = NoMode
    /\ conv2d = NoConv
    /\ stride = NoStride
    /\ blocks = <<>>
    /\ adj_matrix \in AdjMatrices
    /\ node_feats \in FeatsFor(adj_matrix)
    /\ self \in {Scaled(node_feats.shape[3], w) : w \in {1, 2}}
    /\ Idle

\* the next statement of forward binds name to v
GCNStep(at, next, name, v) ==
    /\ pc = at
    /\ fn = "GCNLayer"
    /\ locals' = [locals EXCEPT ![name] = v]
    /\ pc' = next
    /\ UNCHANGED <<args, Y, i, j, ret, exc, cell, writes, self, node_feats, adj_matrix,
                   execution_count, first, Yp, pending, rw, ms>>

\* num_neighbours = adj_matrix.sum(dim=-1, keepdims=True)
NumNeighbours == GCNStep("call", "projection", "num_neighbours", SumLast(adj_matrix))

\* node_feats = self.projection(node_feats)
Project == GCNStep("projection", "bmm", "node_feats", Projection(self, node_feats))

\* node_feats = torch.bmm(adj_matrix, node_feats)
Aggregate == GCNStep("bmm", "div", "node_feats", Bmm(adj_matrix, locals.node_feats))

\* node_feats = node_feats / num_neighbours
Normalise ==
    GCNStep("div", "return", "node_feats", DivBroadcast(locals.node_feats, locals.num_neighbours))

\* return node_feats
GCNReturn ==
    /\ pc = "return"
    /\ fn = "GCNLayer"
    /\ ret' = locals.node_feats
    /\ pc' = "done"
    /\ UNCHANGED <<args, Y, i, j, exc, cell, nb>>

NextGCN ==
    \/ NumNeighbours
    \/ Project
    \/ Aggregate
    \/ Normalise
    \/ GCNReturn

SpecGCN == InitGCN /\ [][NextGCN]_vars

(***************************************************************************)
(* FixedHiddenMLP of the model-construction notebook, with layers of one   *)
(* feature.                                                                *)
(***************************************************************************)
\* the entries of an input are whole numbers of magnitude MaxAbs at most, or
\* not finite
MaxAbs == 3

\* the smallest positive float is 2^-Underflow
Underflow == 8

Inf == <<1, 0>>

NegInf == <<-1, 0>>

\* A + v for a number v
AddScalar(A, v) == [A EXCEPT !.data = [n \in 1..Len(A.data) |-> RAdd(A.data[n], v)]]

\* X.abs().sum(): the L1 norm
AbsSum(A) == Sum([n \in 1..Len(A.data) |-> <<Abs(A.data[n][1]), A.data[n][2]>>])

\* a test on the sum of the entries, without the abs()
SumExceeds(A) == RLess(<<1, 1>>, TSum(A))

\* X.abs().sum() > 1; a comparison with nan is False
Exceeds(A) == RLess(<<1, 1>>, AbsSum(A))

RECURSIVE Pow2(_)
Pow2(n) == IF n = 0 THEN 1 ELSE 2 * Pow2(n - 1)

\* v / 2 of a float: half of a multiple of the smallest positive float,
\* 2^-Underflow, is rounded to a multiple of it, to the even one of the two
\* nearest (half of the smallest float itself is 0)
Half(v) ==
    IF v[2] < Pow2(Underflow) THEN RMul(v, <<1, 2>>)
    ELSE LET q == v[1] \div 2
         IN  Rat(IF v[1] % 2 = 0 \/ q % 2 = 0 THEN q ELSE q + 1, v[2])

\* X /= 2
Halve(A) == [A EXCEPT !.data = [n \in 1..Len(A.data) |-> Half(A.data[n])]]

\* the inputs X of one or two rows
Batches ==
    UNION {{Tensor("float", <<r, 1>>, d) :
               d \in [1..r -> {<<v, 1>> : v \in (-MaxAbs)..MaxAbs} \cup {Inf, NegInf, NaN}]} :
           r \in 1..2}

\* self.rand_weight = torch.rand(...), in [0, 1), and self.linear = nn.Linear(...)
FixedHiddenMLPs ==
    {[weight |-> Literal("float", <<1, 1>>, <<w>>),
      bias |-> Literal("float", <<1>>, <<b>>),
      rand_weight |-> Tensor("float", <<1, 1>>, <<r>>)] :
        w \in {-2, 0, 1}, b \in {0, 1}, r \in {<<0, 1>>, <<1, 2>>}}

\* net = FixedHiddenMLP(); net(X)
InitFixedHidden ==
    /\ fn = "FixedHiddenMLP"
    /\ X \in Batches
    /\ K = NoTensor
    /\ pool_size = NoSize
    /\ mode = NoMode
    /\ conv2d = NoConv
    /\ stride = NoStride
    /\ blocks = <<>>
    /\ self \in FixedHiddenMLPs
    /\ node_feats = NoTensor
    /\ adj_matrix = NoTensor
    /\ Idle

\* the next statement of forward rebinds its X to v
Rebind(at, next, v) ==
    /\ pc = at
    /\ fn = "FixedHiddenMLP"
    /\ locals' = [locals EXCEPT !.X = v]
    /\ pc' = next
    /\ UNCHANGED <<args, Y, i, j, ret, exc, cell, writes, self, node_feats, adj_matrix,
                   execution_count, first, Yp, pending, rw, ms>>

\* X = self.linear(X)
LinearFirst == Rebind("call", "relu", Linear(X, self.weight, self.bias))

\* X = F.relu(torch.mm(X, self.rand_weight) + 1)
FixedHidden ==
    Rebind("relu", "linear", Relu(AddScalar(MatMul(locals.X, self.rand_weight), <<1, 1>>)))

\* X = self.linear(X)
LinearAgain == Rebind("linear", "while", Linear(locals.X, self.weight, self.bias))

\* while X.abs().sum() > 1: X /= 2
While ==
    IF Exceeds(locals.X)
    THEN Rebind("while", "while", Halve(locals.X))
    ELSE Rebind("while", "return", locals.X)

\* return X.sum()
ReturnSum ==
    /\ pc = "return"
    /\ fn = "FixedHiddenMLP"
    /\ ret' = Tensor("float", <<>>, <<TSum(locals.X)>>)
    /\ pc' = "done"
    /\ UNCHANGED <<args, Y, i, j, exc, cell, nb>>

NextFixedHidden ==
    \/ LinearFirst
    \/ FixedHidden
    \/ LinearAgain
    \/ While
    \/ ReturnSum

\* forward runs on: none of its statements waits for anything
SpecFixedHidden ==
    /\ InitFixedHidden
    /\ [][NextFixedHidden]_vars
    /\ WF_vars(NextFixedHidden)

(***************************************************************************)
(* Properties of the reducers.                                             *)
(***************************************************************************)
\* the integer value of element (r, c) of an input tensor (the inputs hold
\* whole numbers, as float or as long)
IntAt(T, r, c) ==
    LET v == T.data[r * T.shape[2] + c + 1] IN IF T.dtype = "float" THEN v[1] ELSE v

\* the window of output cell (r, c): the index pairs (p, q) it covers
Offsets(kh, kw) == (0..(kh - 1)) \X (0..(kw - 1))

\* the sum over a finite set S of index pairs of f(p, q)
RECURSIVE SumOver(_, _, _, _, _)
SumOver(S, Xt, Kt, r, c) ==
    IF S = {} THEN 0
    ELSE LET o == CHOOSE o \in S : TRUE
         IN  IntAt(Xt, r + o[1], c + o[2]) * (IF Kt = NoTensor THEN 1 ELSE IntAt(Kt, o[1], o[2]))
             + SumOver(S \ {o}, Xt, Kt, r, c)

\* the window (kh, kw) of the call in progress
WinShape == IF fn = "corr2d" THEN K.shape ELSE pool_size

H == X.shape[1]

W == X.shape[2]

Fits == WinShape[1] <= H /\ WinShape[2] <= W

Returned(f) == pc = "done" /\ fn = f

Cells(T) == (0..(T.shape[1] - 1)) \X (0..(T.shape[2] - 1))

\* C1: corr2d returns, for a kernel that fits the grid, the grid whose cell
\* (i, j) is the sum over (p, q) of X[i+p, j+q] * K[p, q], the kernel applied
\* as given; the 3x3 example with K = [[0,1],[2,3]] gives [[19,25],[37,43]].
C1_WeightedSum ==
    (Returned("corr2d") /\ Fits) =>
        /\ ret.shape = <<H - K.shape[1] + 1, W - K.shape[2] + 1>>
        /\ \A c \in Cells(ret) :
              At(ret, c[1], c[2])
                  = <<SumOver(Offsets(K.shape[1], K.shape[2]), X, K, c[1], c[2]), 1>>
        /\ (X = ExampleX("float") /\ K = ExampleK)
              => ret = Literal("float", <<2, 2>>, <<19, 25, 37, 43>>)

C1_Witness ==
    /\ Returned("corr2d")
    /\ X = ExampleX("float")
    /\ K = ExampleK
    /\ ret = Literal("float", <<2, 2>>, <<19, 25, 37, 43>>)

\* C2: pool2d in mode 'max' returns, for a window that fits the grid, the
\* grid whose cell (i, j) is the largest element of X[i..i+p_h-1, j..j+p_w-1],
\* also when every element is negative; the 3x3 example gives [[4,5],[7,8]].
C2_MaxPool ==
    (Returned("pool2d") /\ mode = "max" /\ Fits) =>
        /\ ret.shape = <<H - pool_size[1] + 1, W - pool_size[2] + 1>>
        /\ \A c \in Cells(ret) :
              LET win == Offsets(pool_size[1], pool_size[2])
                  y == At(ret, c[1], c[2])
              IN  /\ y[2] = 1
                  /\ \E o \in win : y[1] = IntAt(X, c[1] + o[1], c[2] + o[2])
                  /\ \A o \in win : y[1] >= IntAt(X, c[1] + o[1], c[2] + o[2])
        /\ (X.shape = <<3, 3>> /\ pool_size = <<2, 2>> /\ IntAt(X, 2, 2) = 8)
              => ret = Literal("float", <<2, 2>>, <<4, 5, 7, 8>>)

\* a window of negative elements only has been reduced
C2_Witness ==
    /\ Returned("pool2d")
    /\ mode = "max"
    /\ X = Literal("float", <<2, 2>>, <<-1, -1, -1, -1>>)
    /\ pool_size = <<1, 2>>
    /\ ret = Literal("float", <<2, 1>>, <<-1, -1>>)

\* a cell y of the output is the exact quotient of the window sum by kh*kw
ExactMean(y, r, c) ==
    y[1] * pool_size[1] * pool_size[2]
        = y[2] * SumOver(Offsets(pool_size[1], pool_size[2]), X, NoTensor, r, c)

\* C3: pool2d in mode 'avg' gives, for a window that fits and for a grid of
\* any numeric type, an output whose every cell times kh*kw is the window sum.
C3_MeanAnyType ==
    (fn = "pool2d" /\ mode = "avg" /\ Fits) =>
        /\ pc # "raised"
        /\ pc = "done" =>
              \A c \in Cells(ret) : ExactMean(At(ret, c[1], c[2]), c[1], c[2])

\* what the code does guarantee: the mean of a float grid is exact
MeanOfFloatExact ==
    (Returned("pool2d") /\ mode = "avg" /\ Fits /\ X.dtype = "float") =>
        \A c \in Cells(ret) : ExactMean(At(ret, c[1], c[2]), c[1], c[2])

\* C9: a window of the size of the whole grid gives an output of exactly one
\* cell, the reduction (weighted sum, max or mean) over the whole grid.
C9_FullWindow ==
    (pc = "done" /\ fn \in {"corr2d", "pool2d"} /\ WinShape = X.shape) =>
        /\ ret.shape = <<1, 1>>
        /\ LET y == ret.data[1]
               all == Offsets(H, W)
           IN  /\ fn = "corr2d" => y = <<SumOver(all, X, K, 0, 0), 1>>
               /\ (fn = "pool2d" /\ mode = "max") =>
                     /\ \E o \in all : y = <<IntAt(X, o[1], o[2]), 1>>
                     /\ \A o \in all : y[1] >= IntAt(X, o[1], o[2])
               /\ (fn = "pool2d" /\ mode = "avg") =>
                     y[1] * H * W = y[2] * SumOver(all, X, NoTensor, 0, 0)

C9_Witness ==
    /\ Returned("pool2d")
    /\ mode = "avg"
    /\ X = Literal("float", <<2, 2>>, <<1, 0, 0, 0>>)
    /\ pool_size = <<2, 2>>
    /\ ret = Tensor("float", <<1, 1>>, << <<1, 4>> >>)

\* the window is larger than the grid on some axis
Oversized == WinShape[1] > H \/ WinShape[2] > W

\* ... by two or more
OversizedByTwo == WinShape[1] > H + 1 \/ WinShape[2] > W + 1

\* C10 as stated: a window larger than the grid on either axis makes the
\* reducer fail; no output grid is returned, not even an empty one.
C10_OversizedFails ==
    (fn \in {"corr2d", "pool2d"} /\ Oversized) =>
        /\ pc \in {"call", "raised"}
        /\ ret = NoTensor

\* C10, amended: a window larger than the grid by two or more on some axis
\* makes the reducer fail in the allocation of the output (RuntimeError),
\* before any cell is computed, and nothing is returned; a window larger by
\* one only (kh = H+1 or kw = W+1) makes it return an empty grid, no error.
C10_OversizedByTwoFails ==
    (fn \in {"corr2d", "pool2d"} /\ Oversized) =>
        IF OversizedByTwo
        THEN /\ pc \in {"call", "raised"}
             /\ pc = "raised" => exc = "RuntimeError"
             /\ Y = NoTensor
             /\ ret = NoTensor
        ELSE /\ pc # "raised"
             /\ Y # NoTensor => Y.data = <<>>
             /\ pc = "done" => (ret = Y /\ Numel(ret.shape) = 0 /\ ret.data = <<>>)

C10_Witness ==
    /\ fn = "corr2d"
    /\ pc = "raised"
    /\ exc = "RuntimeError"
    /\ H = 1
    /\ K.shape[1] = 3
    /\ ret = NoTensor

\* the empty grid of a window one larger than the grid
C10_EmptyReturned ==
    /\ Returned("pool2d")
    /\ pool_size[1] = H + 1
    /\ Numel(ret.shape) = 0

(***************************************************************************)
(* Properties of the multi-channel functions.                              *)
(***************************************************************************)
\* the sum of F(x) over the elements x of the finite set S
RECURSIVE SumSet(_, _)
SumSet(F(_), S) ==
    IF S = {} THEN 0
    ELSE LET x == CHOOSE x \in S : TRUE IN F(x) + SumSet(F, S \ {x})

\* X[c, r, q] of the grid stack, K[c, p, q] of a weight stack (C, kh, kw) and
\* K[o, c, p, q] of weights (O, C, kh, kw), as whole numbers
X3(c, r, q) == X.data[(c * X.shape[2] + r) * X.shape[3] + q + 1][1]

K3(c, p, q) == K.data[(c * K.shape[2] + p) * K.shape[3] + q + 1][1]

K4(o, c, p, q) == K.data[((o * K.shape[2] + c) * K.shape[3] + p) * K.shape[4] + q + 1][1]

\* the triples (channel, p, q) of a window over C channels
ChannelOffsets(C, kh, kw) == (0..(C - 1)) \X (0..(kh - 1)) \X (0..(kw - 1))

\* the output of the 2-channel example of the notebook
ExampleY2 == Literal("float", <<2, 2>>, <<56, 72, 104, 120>>)

\* C6: for a grid stack and a weight stack of the same number of channels,
\* corr2d_multi_in returns one grid whose cell (r, q) is the sum over the
\* channels c of the cell (r, q) of corr2d(X[c], K[c]); the 2-channel example
\* gives [[56,72],[104,120]].
C6_MultiInAdditive ==
    (Returned("corr2d_multi_in") /\ X.shape[1] = K.shape[1]) =>
        /\ ret.shape = <<X.shape[2] - K.shape[2] + 1, X.shape[3] - K.shape[3] + 1>>
        /\ \A y \in Cells(ret) :
              LET Term(t) == X3(t[1], y[1] + t[2], y[2] + t[3]) * K3(t[1], t[2], t[3])
              IN  At(ret, y[1], y[2])
                      = <<SumSet(Term, ChannelOffsets(K.shape[1], K.shape[2], K.shape[3])), 1>>
        /\ (X = ExampleX2 /\ K = ExampleK2) => ret = ExampleY2

C6_Witness ==
    /\ Returned("corr2d_multi_in")
    /\ X = ExampleX2
    /\ K = ExampleK2
    /\ ret = ExampleY2

\* C7: corr2d_multi_in_out returns a tensor whose leading axis has exactly
\* O = K.shape[0] items, the o-th being corr2d_multi_in(X, K[o]), computed
\* from the o-th weight stack alone; item 0 of the 3-output example is the
\* result of the 2-channel example.
C7_MultiInOut ==
    Returned("corr2d_multi_in_out") =>
        /\ Len(ret.shape) = 3
        /\ ret.shape[1] = K.shape[1]
        /\ \A o \in 0..(K.shape[1] - 1) : \A out \in {Item(ret, o)} :
              /\ out = Corr2dMultiIn(X, Item(K, o))
              /\ X.shape[1] = K.shape[2] =>
                    \A y \in Cells(out) :
                        LET Term(t) ==
                                X3(t[1], y[1] + t[2], y[2] + t[3]) * K4(o, t[1], t[2], t[3])
                        IN  At(out, y[1], y[2])
                                = <<SumSet(Term,
                                           ChannelOffsets(K.shape[2], K.shape[3], K.shape[4])), 1>>
        /\ (X = ExampleX2 /\ K = ExampleK3) => Item(ret, 0) = ExampleY2

C7_Witness ==
    /\ Returned("corr2d_multi_in_out")
    /\ X = ExampleX2
    /\ K = ExampleK3
    /\ ret = Literal("float", <<3, 2, 2>>,
                      <<56, 72, 104, 120, 76, 100, 148, 172, 96, 128, 192, 224>>)

\* C8: for weights (O, C, 1, 1) over a grid stack (C, H, W) the validation
\* cell binds Y1 = corr2d_multi_in_out_1x1(X, K) and Y2 = corr2d_multi_in_out(X, K)
\* to the same tensor of shape (O, H, W), and its assertion passes.
C8_OneByOneEquivalent ==
    (fn = "validate_1x1" /\ K.shape[2] = X.shape[1]) =>
        /\ pc # "raised"
        /\ pc \in {"Y2", "assert", "done"} =>
              Y1.shape = <<K.shape[1], X.shape[2], X.shape[3]>>
        /\ pc \in {"assert", "done"} => Y1 = Y2

C8_Witness ==
    /\ fn = "validate_1x1"
    /\ pc = "done"
    /\ X.shape = <<2, 1, 2>>
    /\ K.shape = <<2, 2, 1, 1>>
    /\ Y1 = Y2
    /\ Y1.shape = <<2, 1, 2>>

\* the computed output height and width of the call in progress
Ho == H - WinShape[1] + 1

Wo == W - WinShape[2] + 1

\* C13 as stated: if the computed output height or width is 0, the reducer
\* does not fail and what it returns is an empty grid.
C13_EmptyGrid ==
    (fn \in {"corr2d", "pool2d"} /\ (Ho = 0 \/ Wo = 0)) =>
        /\ pc # "raised"
        /\ pc = "done" => (ret.shape = <<Ho, Wo>> /\ ret.data = <<>>)

\* C13, amended: if the computed output height or width is 0 and the other
\* one is not negative, the reducer does not fail, computes no cell, and what
\* it returns is the empty grid of that shape; if the other one is negative
\* the allocation fails and nothing is returned.
C13_EmptyGridUnlessNegative ==
    (fn \in {"corr2d", "pool2d"} /\ (Ho = 0 \/ Wo = 0)) =>
        IF Ho >= 0 /\ Wo >= 0
        THEN /\ pc # "raised"
             /\ pc # "call" => (Y.shape = <<Ho, Wo>> /\ Y.data = <<>> /\ j = 0)
             /\ pc = "done" => (ret.shape = <<Ho, Wo>> /\ ret.data = <<>>)
        ELSE /\ pc # "done"
             /\ ret = NoTensor
             /\ pc # "call" => (pc = "raised" /\ exc = "RuntimeError")

\* an empty grid of two rows and no column has been returned, in a mode
\* whose reduction would have raised on a cell
C13_Witness ==
    /\ Returned("pool2d")
    /\ mode = "avg"
    /\ X.dtype = "long"
    /\ X.shape = <<2, 1>>
    /\ pool_size = <<1, 2>>
    /\ ret = Tensor("float", <<2, 0>>, <<>>)

\* the window has no element
ZeroWindow == fn \in {"corr2d", "pool2d"} /\ WinShape[1] * WinShape[2] = 0

\* C12: a reduction over a window of no element (kh * kw = 0, no axis larger
\* than the grid) fails (with whatever error) instead of returning an output
\* grid.
C12_ZeroWindowFails ==
    (ZeroWindow /\ Fits) =>
        /\ pc # "done"
        /\ ret = NoTensor

\* what the code does for such a window: 'avg' returns a grid of nan
C12_NaNReturned ==
    /\ Returned("pool2d")
    /\ mode = "avg"
    /\ pool_size = <<0, 1>>
    /\ X.shape = <<1, 1>>
    /\ ret = Tensor("float", <<2, 1>>, <<NaN, NaN>>)

\* ... 'max' raises in the reduction of the first cell
C12_MaxRaised ==
    /\ fn = "pool2d"
    /\ mode = "max"
    /\ pool_size = <<0, 1>>
    /\ pc = "raised"
    /\ exc = "RuntimeError"
    /\ Y = Zeros(<<H + 1, W>>)

\* ... and corr2d returns a grid of zeros
C12_ZerosReturned ==
    /\ Returned("corr2d")
    /\ K.shape = <<0, 1>>
    /\ X.shape = <<1, 1>>
    /\ ret = Zeros(<<2, 1>>)

\* C14: a call with the arguments of the first call of the session ends as
\* the first call did, with the same output grid (or the same failure),
\* whatever calls were made in between and whatever they left behind.
C14_Deterministic ==
    (first # NoCall /\ args = first.args /\ pc \in {"done", "raised"}) =>
        /\ pc = first.pc
        /\ ret = first.ret
        /\ exc = first.exc

\* the third call of a session repeats the first, a pooling of two rows,
\* after a call with other arguments
C14_Witness ==
    /\ execution_count = 3
    /\ args = first.args
    /\ Returned("pool2d")
    /\ mode = "avg"
    /\ pool_size = <<1, 2>>
    /\ ret = first.ret
    /\ ret = Tensor("float", <<2, 1>>, << <<1, 2>>, <<5, 2>> >>)

\* grids A and B are one but for the cell (r, c)
SameBut(A, B, r, c) ==
    /\ A.dtype = B.dtype
    /\ A.shape = B.shape
    /\ \A n \in 1..Len(A.data) : n # r * A.shape[2] + c + 1 => A.data[n] = B.data[n]

\* C15: no step of a call changes the grid, the weights or the window; the
\* output grid is allocated once, by the call, and a step that changes it
\* writes the one cell (i, j); the grid returned is that output grid.
C15_InputsUntouched ==
    [][/\ args' = args
       /\ Y' # Y =>
             \/ pc = "call" /\ Y = NoTensor /\ Y' = Zeros(Y'.shape)
             \/ pc = "for_j" /\ SameBut(Y, Y', i, j)
       /\ ret' # ret => (pc = "return" /\ ret = NoTensor /\ ret' = Y)]_vars

\* a call has written both cells of its output and returned
C15_Witness ==
    /\ Returned("corr2d")
    /\ X = Literal("float", <<2, 2>>, <<1, -1, 0, 1>>)
    /\ K = Literal("float", <<1, 2>>, <<1, -1>>)
    /\ ret = Literal("float", <<2, 1>>, <<2, -1>>)

\* C16: the loop body run once per cell in any order leaves the grid that
\* the row-major loops returned, and every cell it has written so far has
\* its final value already, whichever cells were written before it.
C16_AnyOrder ==
    /\ pc = "cells" =>
          \A c \in CellsOf(ret) \ pending : At(Yp, c[1], c[2]) = At(ret, c[1], c[2])
    /\ pc = "joined" => Yp = ret

\* the last cell row-major has been computed first, the others not yet
C16_Witness ==
    /\ pc = "cells"
    /\ fn = "corr2d"
    /\ ret.shape = <<2, 2>>
    /\ pending = {<<0, 0>>, <<0, 1>>, <<1, 0>>}
    /\ At(Yp, 1, 1) = <<1, 1>>
    /\ At(ret, 0, 0) = <<-1, 1>>

\* the stride asked for: the one passed, (1, 1) when none is
AskedStride == IF stride = NoStride THEN <<1, 1>> ELSE stride

\* the window (kh, kw) has an element and fits the grid
ValidWindow == WinShape[1] >= 1 /\ WinShape[2] >= 1 /\ Fits

\* the reduction of the window of X anchored at (r0, c0), as an integer
\* numerator over the denominator d: the weighted sum (d = 1), the maximum
\* (d = 1) or the mean (d = kh * kw)
ReducesTo(y, r0, c0) ==
    LET win == Offsets(WinShape[1], WinShape[2])
    IN  IF fn = "corr2d" THEN y = <<SumOver(win, X, K, r0, c0), 1>>
        ELSE IF mode = "max"
             THEN /\ y[2] = 1
                  /\ \E o \in win : y[1] = IntAt(X, r0 + o[1], c0 + o[2])
                  /\ \A o \in win : y[1] >= IntAt(X, r0 + o[1], c0 + o[2])
        ELSE mode = "avg" =>
                y[1] * WinShape[1] * WinShape[2]
                    = y[2] * SumOver(win, X, NoTensor, r0, c0)

\* C17 as stated: for every stride (sh, sw) >= 1, the default being (1, 1),
\* the call returns the grid of floor((H-kh)/sh)+1 rows and floor((W-kw)/sw)+1
\* columns whose cell (i, j) is the reduction of the window anchored at
\* (i*sh, j*sw).
C17_StridedWindow ==
    (fn \in {"corr2d", "pool2d"} /\ ValidWindow /\ X.dtype = "float") =>
        /\ pc # "raised"
        /\ pc = "done" =>
              /\ ret.shape = <<((H - WinShape[1]) \div AskedStride[1]) + 1,
                               ((W - WinShape[2]) \div AskedStride[2]) + 1>>
              /\ \A c \in Cells(ret) :
                    ReducesTo(At(ret, c[1], c[2]),
                              c[1] * AskedStride[1], c[2] * AskedStride[2])

\* C17, amended: corr2d and pool2d take no stride; a call that passes one
\* fails at once (TypeError) and returns nothing.  Called without, their
\* stride is (1, 1): the window read for cell (i, j) is exactly
\* X[i .. i+kh-1, j .. j+kw-1], anchored at (i, j), and the cell returned is
\* its reduction.
C17_UnitStride ==
    /\ (fn \in {"corr2d", "pool2d"} /\ stride # NoStride) =>
          /\ pc \in {"call", "raised"}
          /\ pc = "raised" => exc = "TypeError"
          /\ ret = NoTensor
    /\ (fn \in {"corr2d", "pool2d"} /\ stride = NoStride /\ ValidWindow) =>
          /\ (pc = "for_j" /\ j < Y.shape[2]) =>
                \A win \in {Window(X, WinShape, i, j)} :
                    /\ win.shape = WinShape
                    /\ \A o \in Offsets(WinShape[1], WinShape[2]) :
                          At(win, o[1], o[2]) = At(X, i + o[1], j + o[2])
          /\ (pc = "done" /\ X.dtype = "float") =>
                /\ ret.shape = <<H - WinShape[1] + 1, W - WinShape[2] + 1>>
                /\ \A c \in Cells(ret) : ReducesTo(At(ret, c[1], c[2]), c[1], c[2])

\* a pooling without a stride has read the window of its second cell
C17_Witness ==
    /\ fn = "pool2d"
    /\ stride = NoStride
    /\ mode = "max"
    /\ pool_size = <<2, 1>>
    /\ X = Literal("float", <<2, 2>>, <<0, 1, -1, 1>>)
    /\ pc = "for_j"
    /\ j = 1
    /\ Window(X, pool_size, i, j) = Literal("float", <<2, 1>>, <<1, 1>>)
    /\ Y = Literal("float", <<1, 2>>, <<0, 0>>)

\* a call that passes a stride has been rejected
C17_Rejected ==
    /\ fn = "pool2d"
    /\ stride = <<2, 2>>
    /\ pc = "raised"
    /\ exc = "TypeError"

\* the grid stack and the weight stack differ in their channel counts
ChannelMismatch == fn = "corr2d_multi_in" /\ X.shape[1] # K.shape[1]

\* C11: corr2d_multi_in over a grid stack and a weight stack whose channel
\* counts differ fails (with whatever error) and produces no output.
C11_ChannelMismatchFails ==
    (ChannelMismatch /\ pc # "call") =>
        /\ pc = "raised"
        /\ ret = NoTensor

\* what the code does there: the channels beyond the shorter stack are
\* dropped and the sum over the others is returned
C11_Truncated ==
    /\ ChannelMismatch
    /\ pc = "done"
    /\ X.shape = <<2, 1, 2>>
    /\ K.shape = <<1, 1, 1>>
    /\ ret.shape = <<1, 2>>

(***************************************************************************)
(* Properties of the read-write notebook.                                  *)
(***************************************************************************)
\* C18: a load returns a value equal to the one last saved under its file
\* name, a tensor, a list of tensors (same length and order) or a dict (same
\* keys and values), whatever was saved under the other names since; a file
\* exists exactly if something was saved under its name.
C18_RoundTrip ==
    /\ \A f \in FileNames : files[f] = NoFile <=> saved[f] = Unbound
    /\ (pc = "load_x" /\ exc = NoExc) => names.x2 = saved["x-file"]
    /\ (pc = "load_list" /\ exc = NoExc) =>
          /\ saved["x-files"].kind = "list"
          /\ names.x2.items \o names.y2.items = saved["x-files"].items
    /\ (pc = "load_dict" /\ exc = NoExc) =>
          /\ names.mydict2 = saved["mydict"]
          /\ Lookup(names.mydict2, "x") = Lookup(saved["mydict"], "x")
          /\ Lookup(names.mydict2, "y") = Lookup(saved["mydict"], "y")

\* the dict of the notebook has been loaded back after x was bound anew
\* and saved under another name
C18_Witness ==
    /\ pc = "load_dict"
    /\ exc = NoExc
    /\ names.mydict2 = DictVal(<<"x", "y">>, <<Arange(4), Zeros(<<4>>)>>)
    /\ names.x = TensorVal(Arange(2))
    /\ saved["x-file"] = TensorVal(Arange(2))
    /\ saved["x-files"] = ListVal(<<Arange(4), Zeros(<<4>>)>>)

\* C19: the clone, constructed afresh and loaded from the file written from
\* net.state_dict(), has the parameters of net, and its output for X equals
\* the output Y of net element for element: Y_clone == Y is True everywhere.
C19_CloneAgrees ==
    /\ (fn = "read_write_params" /\ pc \in {"eval", "Y_clone", "done"}) =>
          \A n \in 1..Len(ParamNames) :
              Lookup(names.clone, ParamNames[n]) = Lookup(names.net, ParamNames[n])
    /\ (fn = "read_write_params" /\ pc = "done") =>
          /\ names.Y_clone = TensorVal(Y)
          /\ ret.shape = Y.shape
          /\ \A n \in 1..Len(ret.data) : ret.data[n]

\* the clone of a net whose biases are all 1 has computed the net's output
C19_Witness ==
    /\ fn = "read_write_params"
    /\ pc = "done"
    /\ Lookup(names.net, "hidden.bias") = Literal("float", <<2>>, <<1, 1>>)
    /\ Lookup(names.net, "hidden.weight") = Literal("float", <<2, 2>>, <<1, -1, -1, 1>>)
    /\ Lookup(names.net, "output.weight") = Literal("float", <<1, 2>>, <<1, -1>>)
    /\ Lookup(names.net, "output.bias") = Literal("float", <<1>>, <<1>>)
    /\ X = Literal("float", <<1, 2>>, <<1, -1>>)
    /\ Y = Literal("float", <<1, 1>>, <<4>>)
    /\ names.Y_clone = TensorVal(Y)
    /\ ret.data = <<TRUE>>

(***************************************************************************)
(* The traversal of the output cells.                                      *)
(***************************************************************************)
\* the cells of the grid T in row-major order
RowMajor(T) ==
    [n \in 1..(T.shape[1] * T.shape[2]) |->
        <<(n - 1) \div T.shape[2], (n - 1) % T.shape[2]>>]

\* the number of cells the loops have been through
Visited ==
    IF pc = "for_i" THEN i * Y.shape[2]
    ELSE IF pc = "for_j" THEN i * Y.shape[2] + j
    ELSE Y.shape[1] * Y.shape[2]

\* the loops of a call with one of the reductions are running or are over
Looping ==
    /\ fn \in {"corr2d", "pool2d"}
    /\ mode \in {NoMode, "max", "avg"}
    /\ pc \in {"for_i", "for_j", "return", "done"}

\* the stores so far are the first Visited cells in row-major order, each
\* once; those cells hold the value the body gives them, the others still 0
TraversedInOrder ==
    Looping =>
        /\ (pc = "for_i" => i <= Y.shape[1])
        /\ (pc = "for_j" => (i < Y.shape[1] /\ j <= Y.shape[2]))
        /\ writes = SubSeq(RowMajor(Y), 1, Visited)
        /\ \A n \in 1..Len(RowMajor(Y)) :
              LET c == RowMajor(Y)[n]
              IN  At(Y, c[1], c[2])
                      = IF n <= Visited
                        THEN At(Body(Zeros(Y.shape), c[1], c[2]), c[1], c[2])
                        ELSE <<0, 1>>
        /\ pc = "done" =>
              /\ ret = Y
              /\ Len(writes) = ret.shape[1] * ret.shape[2]
              /\ \A c \in Cells(ret) : Cardinality({n \in 1..Len(writes) : writes[n] = c}) = 1

\* C21: the loops of corr2d and of pool2d visit the output cells in row-major
\* order (i outer, j inner, both ascending), store into each cell exactly
\* once and end after exactly Ho*Wo stores; at every point in between the
\* cells visited hold their final value and the others the initial 0.
C21_RowMajor == []TraversedInOrder /\ <>(pc \in {"done", "raised"})

\* the loops are in the second row of a 2x2 output: three cells are stored
C21_Witness ==
    /\ fn = "pool2d"
    /\ mode = "max"
    /\ pc = "for_j"
    /\ X = ExampleX("float")
    /\ pool_size = <<2, 2>>
    /\ writes = << <<0, 0>>, <<0, 1>>, <<1, 0>> >>
    /\ Y = Literal("float", <<2, 2>>, <<4, 5, 7, 0>>)

(***************************************************************************)
(* Properties of the mode of pool2d and of the windows read.               *)
(***************************************************************************)
\* C27: pool2d called with a mode other than 'max' and 'avg' raises no error
\* and returns the grid of shape (H - p_h + 1, W - p_w + 1) whose every cell
\* is 0, whatever X holds (the shape being one that torch.zeros allocates:
\* no dimension is negative).
C27_OtherModeZeros ==
    (fn = "pool2d" /\ stride = NoStride /\ mode \notin {"max", "avg"} /\ Ho >= 0 /\ Wo >= 0) =>
        /\ pc # "raised"
        /\ writes = <<>>
        /\ pc = "done" =>
              /\ ret.dtype = "float"
              /\ ret.shape = <<Ho, Wo>>
              /\ Len(ret.data) = Ho * Wo
              /\ \A n \in 1..Len(ret.data) : ret.data[n] = <<0, 1>>

\* a grid without a 0 has been pooled in the mode 'sum'
C27_Witness ==
    /\ Returned("pool2d")
    /\ mode = "sum"
    /\ X = Literal("long", <<2, 2>>, <<1, -1, -1, 1>>)
    /\ pool_size = <<1, 2>>
    /\ ret = Literal("float", <<2, 1>>, <<0, 0>>)

\* the window of the cell (i, j) that the body is about to compute
Reading == pc = "for_j" /\ j < Y.shape[2]

RowsConstant ==
    \A r \in 0..(H - 1) : \A c \in 0..(W - 1) : At(X, r, c) = At(X, r, 0)

\* C24: with K = [[1, -1]] and a grid X of 0 and 1, corr2d(X, K)[i, j] is 0
\* exactly when X[i, j] = X[i, j+1], 1 at an edge from white (1) to black (0)
\* and -1 at an edge from black to white; so the output of a grid whose rows
\* are each constant, like the transposed image, is all zero.
C24_EdgeDetected ==
    (Returned("corr2d") /\ K = EdgeK /\ \A n \in 1..Len(X.data) : X.data[n] \in {<<0, 1>>, <<1, 1>>}) =>
        /\ ret.shape = <<H, W - 1>>
        /\ \A c \in Cells(ret) :
              LET y == At(ret, c[1], c[2])
                  l == At(X, c[1], c[2])
                  r == At(X, c[1], c[2] + 1)
              IN  /\ (y = <<0, 1>>) <=> (l = r)
                  /\ (l = <<1, 1>> /\ r = <<0, 1>>) => y = <<1, 1>>
                  /\ (l = <<0, 1>> /\ r = <<1, 1>>) => y = <<-1, 1>>
        /\ RowsConstant => \A n \in 1..Len(ret.data) : ret.data[n] = <<0, 1>>
        /\ X = Image =>
              \A c \in Cells(ret) :
                  At(ret, c[1], c[2]) = IF c[2] = 1 THEN <<1, 1>>
                                        ELSE IF c[2] = 5 THEN <<-1, 1>> ELSE <<0, 1>>

\* the edges of the image of the notebook have been detected
C24_Witness ==
    /\ Returned("corr2d")
    /\ K = EdgeK
    /\ X = Image
    /\ ret.shape = <<6, 7>>
    /\ At(ret, 0, 1) = <<1, 1>>
    /\ At(ret, 5, 5) = <<-1, 1>>
    /\ At(ret, 3, 3) = <<0, 1>>

(***************************************************************************)
(* Properties of GCNLayer.                                                 *)
(***************************************************************************)
\* the nodes j with adj_matrix[b, r, j] = 1
Neighbours(b, r) ==
    {m \in 0..(adj_matrix.shape[3] - 1) : At3(adj_matrix, b, r, m) = <<1, 1>>}

\* the nodes j with adj_matrix[b, j, r] = 1: the edges from j to r
Incoming(b, r) ==
    {m \in 0..(adj_matrix.shape[2] - 1) : At3(adj_matrix, b, m, r) = <<1, 1>>}

\* the sum over the nodes of S of their input feature k, an integer
RECURSIVE FeatSum(_, _, _)
FeatSum(S, b, k) ==
    IF S = {} THEN 0
    ELSE LET m == CHOOSE m \in S : TRUE
         IN  At3(node_feats, b, m, k)[1] + FeatSum(S \ {m}, b, k)

\* the nodes (b, r) of the batch
Nodes == (0..(adj_matrix.shape[1] - 1)) \X (0..(adj_matrix.shape[2] - 1))

\* C22: with the identity as projection weight and a zero bias, the output
\* of GCNLayer.forward for node i is the arithmetic mean of the input feature
\* vectors of the nodes j with adj_matrix[b, i, j] = 1 (nan where there is no
\* such node); on the example the first node's output is (1, 2), the mean of
\* (0, 1) and (2, 3).
C22_NeighbourMean ==
    (fn = "GCNLayer" /\ pc = "done" /\ self = Scaled(node_feats.shape[3], 1)) =>
        /\ ret.shape = node_feats.shape
        /\ \A v \in Nodes : \A k \in 0..(node_feats.shape[3] - 1) :
              LET y == At3(ret, v[1], v[2], k)
                  N == Neighbours(v[1], v[2])
              IN  IF N = {} THEN y = NaN
                  ELSE /\ y[2] > 0
                       /\ y[1] * Cardinality(N) = y[2] * FeatSum(N, v[1], k)
        /\ (adj_matrix = ExampleAdj /\ node_feats = ExampleFeats) =>
              ret = Literal("float", <<1, 4, 2>>, <<1, 2, 3, 4, 4, 5, 4, 5>>)

\* the layer has run on the example graph
C22_Witness ==
    /\ fn = "GCNLayer"
    /\ pc = "done"
    /\ self = Scaled(2, 1)
    /\ adj_matrix = ExampleAdj
    /\ node_feats = ExampleFeats
    /\ At3(ret, 0, 0, 0) = <<1, 1>>
    /\ At3(ret, 0, 0, 1) = <<2, 1>>

\* C23: num_neighbours of node i is the number of incoming edges of node i,
\* an edge from i to j being adj_matrix[b, i, j] = 1, for every adjacency
\* matrix, the non-symmetric ones included.
C23_IncomingEdges ==
    (fn = "GCNLayer" /\ pc # "call") =>
        \A v \in Nodes :
            At3(locals.num_neighbours, v[1], v[2], 0) = <<Cardinality(Incoming(v[1], v[2])), 1>>

\* what forward counts: the edges from node i, the ones of row i
C23_OutgoingEdges ==
    (fn = "GCNLayer" /\ pc # "call") =>
        \A v \in Nodes :
            At3(locals.num_neighbours, v[1], v[2], 0) = <<Cardinality(Neighbours(v[1], v[2])), 1>>

(***************************************************************************)
(* Properties of the padding and stride arithmetic.                        *)
(***************************************************************************)
\* C26: with the output size floor((n - k + p + s) / s), a total padding of
\* p = k - 1 gives floor((n + s - 1) / s) for all positive n, k and s; if s
\* divides n as well the output size is exactly n / s; and with s = 1 it is
\* the input size n.
C26_SamePadding ==
    (fn = "output_shape" /\ pc = "done") =>
        \A a \in 1..2 :
            LET n == X.shape[a]
                k == conv2d.kernel_size[a]
                s == conv2d.stride[a]
                out == ret.shape[a]
            IN  conv2d.padding[a] = k - 1 =>
                    /\ out = (n + s - 1) \div s
                    /\ out * s >= n /\ (out - 1) * s < n
                    /\ n % s = 0 => out * s = n
                    /\ s = 1 => out = n

\* an 8 x 8 input, a 3 x 4 kernel, 2 rows and 3 columns of padding, strides
\* 2 and 4: the output is 4 x 2
C26_Witness ==
    /\ fn = "output_shape"
    /\ pc = "done"
    /\ X.shape = <<8, 8>>
    /\ conv2d = [kernel_size |-> <<3, 4>>, padding |-> <<2, 3>>, stride |-> <<2, 4>>]
    /\ ret.shape = <<4, 2>>

(***************************************************************************)
(* Properties of FixedHiddenMLP.                                           *)
(***************************************************************************)
HasNaN(A) == \E n \in 1..Len(A.data) : A.data[n] = NaN

HasInf(A) == \E n \in 1..Len(A.data) : A.data[n] \in {Inf, NegInf}

Finite(A) == ~HasNaN(A) /\ ~HasInf(A)

\* at most 1 in absolute value
Small(v) == v[2] > 0 /\ Abs(v[1]) <= v[2]

\* the loop is over with an L1 norm of at most 1, and what is returned is at
\* most 1 in absolute value
ExitsSmall ==
    (fn = "FixedHiddenMLP" /\ pc \in {"return", "done"}) =>
        /\ Small(AbsSum(locals.X))
        /\ pc = "done" => Small(ret.data[1])

\* C25 as stated: the while loop of FixedHiddenMLP.forward ends for every
\* input X, with an L1 norm of X of at most 1, so that the sum returned is at
\* most 1 in absolute value.
C25_Terminates == <>(pc = "done") /\ []ExitsSmall

\* C25, amended: the loop ends for every X whose entries are all finite, with
\* an L1 norm of at most 1 and a sum returned of at most 1 in absolute value;
\* with a nan entry it ends at once, the norm and the sum being nan; with an
\* infinite entry and no nan it never ends.
C25_TerminatesWhenFinite ==
    /\ [](Finite(locals.X) => ExitsSmall)
    /\ (pc = "while" /\ Finite(locals.X)) ~> (pc = "done")
    /\ []((pc \in {"return", "done"} /\ ~Finite(locals.X))
            => (HasNaN(locals.X) /\ AbsSum(locals.X) = NaN))
    /\ []((pc = "while" /\ HasInf(locals.X) /\ ~HasNaN(locals.X)) => [](pc = "while"))

\* the loop has halved 4 twice and forward has returned the sum 1
C25_Witness ==
    /\ fn = "FixedHiddenMLP"
    /\ pc = "done"
    /\ X = Literal("float", <<1, 1>>, <<3>>)
    /\ self.weight = Literal("float", <<1, 1>>, <<1>>)
    /\ self.bias = Literal("float", <<1>>, <<1>>)
    /\ self.rand_weight = Tensor("float", <<1, 1>>, << <<1, 2>> >>)
    /\ locals.X = Literal("float", <<1, 1>>, <<1>>)
    /\ ret = Tensor("float", <<>>, << <<1, 1>> >>)

\* the loop is halving an X with an infinite entry: it goes on for ever
C25_LoopsOnInf ==
    /\ fn = "FixedHiddenMLP"
    /\ pc = "while"
    /\ locals.X = Tensor("float", <<2, 1>>, <<Inf, <<1, Pow2(Underflow)>> >>)

(***************************************************************************)
(* Properties of MySequential.                                             *)
(***************************************************************************)
\* b_k(... b_2(b_1(x)) ...): the first k blocks of bs chained, as the
\* default Sequential chains them
RECURSIVE Chain(_, _, _)
Chain(bs, k, xt) == IF k = 0 THEN xt ELSE Apply(bs[k], Chain(bs, k - 1, xt))

\* C20: MySequential keeps the blocks in the order in which they were
\* passed; forward executes them in that order, each once, feeding each the
\* output of the one before: after k blocks its X is b_k(...b_1(X)...), and
\* it returns b_n(...b_1(X)...) as the default Sequential does.
C20_InOrder ==
    fn = "MySequential" =>
        /\ pc \in {"constructed", "forward", "done"} =>
              /\ Len(_modules) = Len(blocks)
              /\ \A n \in 1..Len(blocks) :
                    _modules[n] = [key |-> Str(n - 1), module |-> blocks[n]]
        /\ pc = "forward" =>
              /\ frame.X = Chain(blocks, idx, X)
              /\ frame.executed = [n \in 1..idx |-> Str(n - 1)]
        /\ pc = "done" =>
              /\ ret = Chain(blocks, Len(blocks), X)
              /\ frame.executed = [n \in 1..Len(blocks) |-> Str(n - 1)]

\* three blocks whose order matters have been chained: -(relu(1 + 1)) = -2
C20_Witness ==
    /\ fn = "MySequential"
    /\ pc = "done"
    /\ blocks = <<LinearBlock(1, 1), ReLUBlock, LinearBlock(-1, 0)>>
    /\ X = Literal("float", <<1, 1>>, <<1>>)
    /\ ret = Literal("float", <<1, 1>>, <<-2>>)
    /\ Chain(<<LinearBlock(-1, 0), ReLUBlock, LinearBlock(1, 1)>>, 3, X) # ret

C5_Case ==
    /\ Returned("comp_conv2d")
    /\ X.shape = <<8, 8>>
    /\ conv2d.kernel_size = <<3, 5>>
    /\ conv2d.stride = <<3, 4>>

\* C5 as stated: H = W = 8, window (3, 5) and stride (3, 4) give Ho = Wo = 2.
C5_EightByEight == C5_Case => ret.shape = <<2, 2>>

\* C5, amended: H = W = 8, window (3, 5) and stride (3, 4) give Ho = Wo = 2
\* when one column is padded on either side (padding=(0, 1), width 10), as in
\* the notebook; on the 8 x 8 grid as it is they give Ho = 2 and Wo = 1.
C5_EightByEightPadded ==
    C5_Case =>
        /\ conv2d.padding = <<0, 1>> => ret.shape = <<2, 2>>
        /\ conv2d.padding = <<0, 0>> => ret.shape = <<2, 1>>

C5_Witness ==
    /\ C5_Case
    /\ conv2d.padding = <<0, 1>>
    /\ ret.shape = <<2, 2>>

====
